---------------------------- MODULE Spec2Model ----------------------------
(***************************************************************************)
(* Model of the mailin SMTP session engine (patch/mailin): the line        *)
(* parser (parser.rs), the response model (response.rs), the protocol      *)
(* state machine (fsm.rs) and the session facade (smtp.rs).                *)
(*                                                                         *)
(* A line is a sequence of bytes; a byte is written as a one-character     *)
(* string, with CR, LF, TAB and XFF (a byte that never occurs in UTF-8)    *)
(* written as named tokens.  Decoded base64 bytes are integers in 0..255.  *)
(***************************************************************************)
EXTENDS Integers, Sequences, FiniteSets, TLC

\* ------------------------------------------------------------------ bounds
\* Largest number of recipients one envelope accumulates in the model.
MaxRcpts == 2
\* Largest number of mechanisms given to SessionBuilder::enable_auth.
MaxMechs == 1
\* Largest number of body lines the sessions of DataSpec send in one Data
\* phase.
MaxBody == 2
\* Largest number of texts in the tail of a dynamic response of WriteSpec.
MaxTail == 3
\* Largest length of MailHandler::rcpts in the sessions of ProductSpec.
MaxPending == 2

\* ------------------------------------------------------------------- bytes
CR == "CR"
LF == "LF"
TAB == "TAB"
XFF == "XFF"
CRLF == <<CR, LF>>

UpperCase == <<"A","B","C","D","E","F","G","H","I","J","K","L","M",
               "N","O","P","Q","R","S","T","U","V","W","X","Y","Z">>
LowerCase == <<"a","b","c","d","e","f","g","h","i","j","k","l","m",
               "n","o","p","q","r","s","t","u","v","w","x","y","z">>
Digits == <<"0","1","2","3","4","5","6","7","8","9">>

ToLower(c) ==
  IF \E i \in 1..26 : UpperCase[i] = c
  THEN LowerCase[CHOOSE i \in 1..26 : UpperCase[i] = c]
  ELSE c

Range(s) == { s[i] : i \in 1..Len(s) }
Drop(s, n) == SubSeq(s, n + 1, Len(s))
Take(s, n) == SubSeq(s, 1, n)

\* str::from_utf8 on the bytes of the model: ASCII tokens are valid, XFF
\* is invalid wherever it stands.
Utf8Valid(s) == \A i \in 1..Len(s) : s[i] # XFF

\* --------------------------------------------------------- nom combinators
\* A parse result: ok, the remaining input and the value.
POk(rest, val) == [ok |-> TRUE, rest |-> rest, val |-> val]
PErr == [ok |-> FALSE, rest |-> <<>>, val |-> <<>>]

\* The number of bytes before the first position of stop, n when stop is
\* empty.
Before(stop, n) ==
  IF stop = {} THEN n ELSE (CHOOSE i \in stop : \A j \in stop : i <= j) - 1

\* Length of the longest prefix of buf whose bytes satisfy "in set" (keep =
\* TRUE) or "not in set" (keep = FALSE).
PrefixLen(buf, set, keep) ==
  Before({ i \in 1..Len(buf) : (buf[i] \in set) # keep }, Len(buf))

\* The first n bytes of buf as the value, the others as the remaining input.
SplitAt(buf, n) == POk(Drop(buf, n), Take(buf, n))

\* As SplitAt, failing on an empty value.
SplitAt1(buf, n) == IF n = 0 THEN PErr ELSE SplitAt(buf, n)

\* nom::bytes::complete::tag
tag(t, buf) ==
  IF Len(buf) >= Len(t) /\ Take(buf, Len(t)) = t
  THEN POk(Drop(buf, Len(t)), t) ELSE PErr

\* nom::bytes::complete::tag_no_case
tag_no_case(t, buf) ==
  IF Len(buf) >= Len(t) /\ \A i \in 1..Len(t) : ToLower(buf[i]) = ToLower(t[i])
  THEN POk(Drop(buf, Len(t)), Take(buf, Len(t))) ELSE PErr

\* nom::bytes::complete::take_while1 over a byte set
take_while1(set, buf) == SplitAt1(buf, PrefixLen(buf, set, TRUE))

\* nom::bytes::complete::is_not
is_not(set, buf) == SplitAt1(buf, PrefixLen(buf, set, FALSE))

\* nom::character::complete::space0: zero or more spaces and tabs
space0(buf) == SplitAt(buf, PrefixLen(buf, {" ", TAB}, TRUE))

\* nom::branch::alt over two parsers: the first that succeeds
alt(a, b) == IF a.ok THEN a ELSE b

\* nom::sequence::terminated(p, tag(t)): the value of p, once t follows it
terminated(p, t) ==
  LET keep(e) == IF e.ok THEN POk(e.rest, p.val) ELSE PErr
  IN keep(IF p.ok THEN tag(t, p.rest) ELSE PErr)

\* nom::combinator::map / value: the result of p with its value replaced
map(p, val) == IF p.ok THEN POk(p.rest, val) ELSE PErr

\* map_res(p, str::from_utf8)
from_utf8(p) == IF p.ok /\ Utf8Valid(p.val) THEN p ELSE PErr

\* ------------------------------------------------------------- parser.rs
\* Match one or more spaces
space(buf) == take_while1({" "}, buf)

\* Return a parser to match the given command
cmd(cmd_tag, buf) ==
  LET sp(t) == IF t.ok THEN space(t.rest) ELSE PErr
  IN sp(tag_no_case(cmd_tag, buf))

hello_domain(buf) == from_utf8(is_not({" ", TAB, CR, LF}, buf))

mail_path(buf) == from_utf8(is_not({" ", "<", ">", TAB, CR, LF}, buf))

take_all(buf) == from_utf8(is_not({CR, LF}, buf))

Command(t, arg) == [tag |-> t, arg |-> arg]

helo(buf) ==
  LET parse_domain(c) == IF c.ok THEN hello_domain(c.rest) ELSE PErr
      make(d) == map(d, Command("Helo", d.val))
  IN make(parse_domain(cmd(<<"h","e","l","o">>, buf)))

ehlo(buf) ==
  LET parse_domain(c) == IF c.ok THEN hello_domain(c.rest) ELSE PErr
      make(d) == map(d, Command("Ehlo", d.val))
  IN make(parse_domain(cmd(<<"e","h","l","o">>, buf)))

body_eq_8bit(buf) ==
  LET preamble(s) ==
        IF s.ok THEN tag_no_case(<<"b","o","d","y","=">>, s.rest) ELSE PErr
      is8bit(b) ==
        IF b.ok
        THEN alt(map(tag_no_case(<<"8","b","i","t","m","i","m","e">>, b.rest), TRUE),
                 map(tag_no_case(<<"7","b","i","t">>, b.rest), FALSE))
        ELSE PErr
  IN is8bit(preamble(space(buf)))

is8bitmime(buf) == alt(body_eq_8bit(buf), POk(buf, FALSE))

\* separated_pair(tag_no_case(word), space0, tag_no_case(b"<")) after the
\* command c, followed by mail_path: the preamble and path of mail and rcpt
path_after(c, word) ==
  LET colon(k) == IF k.ok THEN tag_no_case(word, k.rest) ELSE PErr
      spaces(f) == IF f.ok THEN space0(f.rest) ELSE PErr
      open(z) == IF z.ok THEN tag_no_case(<<"<">>, z.rest) ELSE PErr
      path(l) == IF l.ok THEN mail_path(l.rest) ELSE PErr
  IN path(open(spaces(colon(c))))

mail(buf) ==
  LET close(p) == IF p.ok THEN tag(<<">">>, p.rest) ELSE PErr
      bits(g) == IF g.ok THEN is8bitmime(g.rest) ELSE PErr
      make(p, e) ==
        map(e, Command("Mail", [reverse_path |-> p.val, is8bit |-> e.val]))
      parser(p) == make(p, bits(close(p)))
  IN parser(path_after(cmd(<<"m","a","i","l">>, buf), <<"f","r","o","m",":">>))

rcpt(buf) ==
  LET parser(p) == map(terminated(p, <<">">>), Command("Rcpt", p.val))
  IN parser(path_after(cmd(<<"r","c","p","t">>, buf), <<"t","o",":">>))

\* value(Cmd::X, tag_no_case(word)) for data, rset, quit, noop, starttls
keyword(word, t, buf) == map(tag_no_case(word, buf), Command(t, <<>>))

data(buf) == keyword(<<"d","a","t","a">>, "Data", buf)
rset(buf) == keyword(<<"r","s","e","t">>, "Rset", buf)
quit(buf) == keyword(<<"q","u","i","t">>, "Quit", buf)
noop(buf) == keyword(<<"n","o","o","p">>, "Noop", buf)
starttls(buf) == keyword(<<"s","t","a","r","t","t","l","s">>, "StartTls", buf)

vrfy(buf) ==
  LET preamble(c) == IF c.ok THEN take_all(c.rest) ELSE PErr
  IN map(preamble(cmd(<<"v","r","f","y">>, buf)), Command("Vrfy", <<>>))

Base64Chars == Range(UpperCase) \cup Range(LowerCase) \cup Range(Digits)
               \cup {"+", "/", "="}

is_base64(chr) == chr \in Base64Chars

\* ------------------------------------------------------------ response.rs
Fixed(s) == [kind |-> "Fixed", head |-> s, tail |-> <<>>]
Custom(s) == [kind |-> "Custom", head |-> s, tail |-> <<>>]
Dynamic(h, t) == [kind |-> "Dynamic", head |-> h, tail |-> t]
Empty == [kind |-> "Empty", head |-> "", tail |-> <<>>]

action_from_code(code) == IF code \in {221, 421} THEN "Close" ELSE "Reply"

\* Response::fixed_action that takes only the codes from 500 as errors.
fixed_action_ErrorFrom500(code, message, action) ==
  [code |-> code, message |-> Fixed(message),
   is_error |-> (code < 200 \/ code >= 500), action |-> action]

\* A response that uses a fixed static string and a given action
fixed_action(code, message, action) ==
  [code |-> code, message |-> Fixed(message),
   is_error |-> (code < 200 \/ code >= 400), action |-> action]

\* A response that uses a fixed static string
fixed(code, message) == fixed_action(code, message, action_from_code(code))

\* Create an application defined response.
custom(code, message) ==
  [code |-> code, message |-> Custom(message),
   is_error |-> (code < 200 \/ code >= 400), action |-> action_from_code(code)]

\* A response that is built dynamically and can be a multiline response
dynamic(code, head, tail) ==
  [code |-> code, message |-> Dynamic(head, tail),
   is_error |-> FALSE, action |-> "Reply"]

\* An empty response
empty == [code |-> 0, message |-> Empty, is_error |-> FALSE, action |-> "NoReply"]

EMPTY_RESPONSE == empty
START_TLS == fixed_action(220, "Ready to start TLS", "UpgradeTls")
GOODBYE == fixed(221, "Goodbye")
AUTH_OK == fixed(235, "Authentication succeeded")
OK == fixed(250, "OK")
VERIFY_RESPONSE == fixed(252, "Maybe")
EMPTY_AUTH_CHALLENGE == fixed(334, "")
START_DATA == fixed(354, "Start mail input; end with <CRLF>.<CRLF>")
INVALID_STATE == fixed(421, "Internal service error, closing connection")
NO_SERVICE == fixed(421, "Service not available, closing connection")
INTERNAL_ERROR == fixed(451, "Aborted: local error in processing")
SYNTAX_ERROR == fixed(500, "Syntax error")
MISSING_PARAMETER == fixed(502, "Missing parameter")
BAD_SEQUENCE_COMMANDS == fixed(503, "Bad sequence of commands")
INVALID_CREDENTIALS == fixed(535, "Invalid credentials")
NO_MAILBOX == fixed(550, "Mailbox unavailable")
BAD_HELLO == fixed(550, "Bad HELO")
TRANSACTION_FAILED == fixed(554, "Transaction failed")

\* What one write! of write_to puts out: the code, a separator, a text and
\* the line end.
Written(code, sep, text) == <<code, sep, text, "\r\n">>

\* The for loop of Response::write_to over the tail, from index i on, after
\* out was written.
RECURSIVE write_tail(_, _, _, _)
write_tail(out, code, tail, i) ==
  IF i >= Len(tail) THEN out
  ELSE write_tail(Append(out, IF Len(tail) > 1 /\ i < Len(tail) - 1
                              THEN Written(code, "-", tail[i + 1])
                              ELSE Written(code, " ", tail[i + 1])),
                  code, tail, i + 1)

\* Response::write_to that does not look whether the tail is empty.
write_to_IgnoresEmptyTail(res) ==
  CASE res.message.kind = "Dynamic" ->
         write_tail(<<Written(res.code, "-", res.message.head)>>,
                    res.code, res.message.tail, 0)
    [] res.message.kind = "Fixed" ->
         <<Written(res.code, " ", res.message.head)>>
    [] res.message.kind = "Custom" ->
         <<Written(res.code, " ", res.message.head)>>
    [] res.message.kind = "Empty" -> <<>>

\* Response::write_to: the writes, in order
write_to(res) ==
  CASE res.message.kind = "Dynamic" ->
         IF res.message.tail = <<>>
         THEN <<Written(res.code, " ", res.message.head)>>
         ELSE write_tail(<<Written(res.code, "-", res.message.head)>>,
                         res.code, res.message.tail, 0)
    [] res.message.kind = "Fixed" ->
         <<Written(res.code, " ", res.message.head)>>
    [] res.message.kind = "Custom" ->
         <<Written(res.code, " ", res.message.head)>>
    [] res.message.kind = "Empty" -> <<>>

\* ---------------------------------------------- parser.rs: authentication
B64Alphabet == UpperCase \o LowerCase \o Digits \o <<"+", "/">>

B64Val(c) == (CHOOSE i \in 1..64 : B64Alphabet[i] = c) - 1

\* Three bytes for every four 6-bit values.
B64Quads(v) ==
  [k \in 1..(3 * (Len(v) \div 4)) |->
     LET q == 4 * ((k - 1) \div 3)
         n == v[q + 1] * 262144 + v[q + 2] * 4096 + v[q + 3] * 64 + v[q + 4]
     IN CASE k % 3 = 1 -> n \div 65536
          [] k % 3 = 2 -> (n \div 256) % 256
          [] OTHER -> n % 256]

\* base64::decode with the standard alphabet and mandatory padding, as
\* decode_sasl_plain calls it: the decoded bytes, or an error.
base64_decode(param) ==
  LET padding(n) == IF n >= 2 /\ param[n] = "=" /\ param[n - 1] = "=" THEN 2
                    ELSE IF n >= 1 /\ param[n] = "=" THEN 1 ELSE 0
      values(n, pad) ==
        [i \in 1..n |-> IF i <= n - pad THEN B64Val(param[i]) ELSE 0]
      wellFormed(n, pad, vals) ==
        /\ n % 4 = 0
        /\ \A i \in 1..(n - pad) : param[i] \in Range(B64Alphabet)
        /\ pad = 1 => vals[n - 1] % 4 = 0
        /\ pad = 2 => vals[n - 2] % 16 = 0
      unpadded(bytes, pad) == Take(bytes, Len(bytes) - pad)
      decode(n, pad, vals) ==
        IF wellFormed(n, pad, vals)
        THEN [ok |-> TRUE, bytes |-> unpadded(B64Quads(vals), pad)]
        ELSE [ok |-> FALSE, bytes |-> <<>>]
      padded(n, pad) == decode(n, pad, values(n, pad))
      sized(n) == padded(n, padding(n))
  IN sized(Len(param))

\* bytes.split(|b| b == &0u8): the fields between the NUL bytes
SplitNul(bytes) ==
  LET nuls == { i \in 1..Len(bytes) : bytes[i] = 0 }
      \* the position of the k-th NUL; 0 before the first field and
      \* Len(bytes) + 1 after the last
      pos(k) == IF k = 0 THEN 0
                ELSE IF k > Cardinality(nuls) THEN Len(bytes) + 1
                ELSE CHOOSE i \in nuls : Cardinality({j \in nuls : j < i}) = k - 1
  IN [k \in 1..(Cardinality(nuls) + 1) |->
        SubSeq(bytes, pos(k - 1) + 1, pos(k) - 1)]

\* The k-th field as a string: empty when missing or not UTF-8 (the model's
\* tokens decode to ASCII, so a byte above 127 stands for invalid UTF-8).
next_string(fields, k) ==
  IF k <= Len(fields) /\ \A i \in 1..Len(fields[k]) : fields[k][i] < 128
  THEN fields[k] ELSE <<>>

Credentials(a, b, c) ==
  [authorization_id |-> a, authentication_id |-> b, password |-> c]

\* Decodes the base64 encoded plain authentication parameter
decode_sasl_plain(param) ==
  LET strings(fields) ==
        Credentials(next_string(fields, 1), next_string(fields, 2),
                    next_string(fields, 3))
      split(decoded) ==
        IF decoded.ok THEN strings(SplitNul(decoded.bytes))
        ELSE Credentials(<<>>, <<>>, <<>>)
  IN split(base64_decode(param))

sasl_plain_cmd(param) ==
  IF param = <<>> THEN Command("AuthPlainEmpty", <<>>)
  ELSE Command("AuthPlain", decode_sasl_plain(param))

auth_initial(buf) ==
  LET initial(s) == IF s.ok THEN take_while1(Base64Chars, s.rest) ELSE PErr
  IN initial(space(buf))

auth_response(buf) == terminated(take_while1(Base64Chars, buf), CRLF)

\* The parser that consumes nothing and yields the empty slice
nothing(buf) == POk(buf, <<>>)

auth_plain(buf) ==
  LET make(i) == map(i, sasl_plain_cmd(i.val))
      parser(p) ==
        IF p.ok THEN make(alt(auth_initial(p.rest), nothing(p.rest))) ELSE PErr
  IN parser(tag_no_case(<<"p","l","a","i","n">>, buf))

auth(buf) ==
  LET plain(c) == IF c.ok THEN auth_plain(c.rest) ELSE PErr
  IN plain(cmd(<<"a","u","t","h">>, buf))

\* alt((helo, ehlo, mail, rcpt, data, rset, quit, vrfy, noop, starttls,
\* auth)) terminated by CR LF
command(buf) ==
  terminated(
    alt(helo(buf), alt(ehlo(buf), alt(mail(buf), alt(rcpt(buf),
    alt(data(buf), alt(rset(buf), alt(quit(buf), alt(vrfy(buf),
    alt(noop(buf), alt(starttls(buf), auth(buf))))))))))),
    CRLF)

\* Either a command (ok) or the response describing the parse failure.  The
\* combinators are the complete ones, so nom never reports Incomplete.
Left(c) == [left |-> TRUE, cmd |-> c, res |-> empty]
Right(r) == [left |-> FALSE, cmd |-> Command("None", <<>>), res |-> r]

\* Parse a line from the client
parse(line) ==
  LET result(r) == IF r.ok THEN Left(r.val) ELSE Right(SYNTAX_ERROR)
  IN result(command(line))

\* Parse an authentication response from the client
parse_auth_response(line) ==
  LET result(r) ==
        IF r.ok THEN Left(Command("AuthResponse", r.val)) ELSE Right(SYNTAX_ERROR)
  IN result(auth_response(line))

\* ------------------------------------------------------------ the input
\* The lines a client sends in the model, each ending with CR LF.
LineHelo == <<"h","e","l","o"," ","a">> \o CRLF
LineEhlo == <<"E","H","L","O"," ","b">> \o CRLF
LineHeloBadUtf8 == <<"h","e","l","o"," ","a",XFF>> \o CRLF
LineHeloNoDomain == <<"h","e","l","o">> \o CRLF
LineMail == <<"m","a","i","l"," ","f","r","o","m",":","<","s",">">> \o CRLF
LineMail8bit == <<"M","A","I","L"," ","F","R","O","M",":"," ","<","s",">"," ","B","O","D","Y","=","8","B","I","T","M","I","M","E">> \o CRLF
LineRcptR == <<"r","c","p","t"," ","t","o",":","<","r",">">> \o CRLF
LineRcptQ == <<"r","c","p","t"," ","t","o",":","<","q",">">> \o CRLF
LineData == <<"d","a","t","a">> \o CRLF
LineRset == <<"r","s","e","t">> \o CRLF
LineQuit == <<"q","u","i","t">> \o CRLF
LineVrfy == <<"v","r","f","y"," ","x">> \o CRLF
LineNoop == <<"n","o","o","p">> \o CRLF
LineStartTls == <<"s","t","a","r","t","t","l","s">> \o CRLF
LineAuthPlain == <<"a","u","t","h"," ","p","l","a","i","n">> \o CRLF
LineAuthPlainIR == <<"a","u","t","h"," ","p","l","a","i","n"," ","A","G","E","A","Y","g","=","=">> \o CRLF
LineToken == <<"A","G","E","A","Y","g","=","=">> \o CRLF
LineDot == <<".">> \o CRLF
LineDotDot == <<".",".">> \o CRLF
LineBody == <<"x"," ","y">> \o CRLF

InputLines ==
  {LineHelo, LineEhlo, LineHeloBadUtf8, LineHeloNoDomain,
   LineMail, LineMail8bit, LineRcptR, LineRcptQ,
   LineData, LineRset, LineQuit, LineVrfy,
   LineNoop, LineStartTls, LineAuthPlain, LineAuthPlainIR,
   LineToken, LineDot, LineDotDot, LineBody}

\* parse and parse_auth_response of every input line, computed once.
Parsed == [l \in InputLines |-> parse(l)]
ParsedAuthResponse == [l \in InputLines |-> parse_auth_response(l)]

\* ------------------------------------------------------------------ fsm.rs
\* The protocol state held in StateMachine::smtp: one of the State structs
\* with its fields, or None.  Fields a struct does not have are left empty.
SmtpState(id, domain, reverse_path, is8bit, forward_path, mechanism) ==
  [id |-> id, domain |-> domain, reverse_path |-> reverse_path,
   is8bit |-> is8bit, forward_path |-> forward_path, mechanism |-> mechanism]

None == SmtpState("Invalid", <<>>, <<>>, FALSE, <<>>, "")
Idle == SmtpState("Idle", <<>>, <<>>, FALSE, <<>>, "")
Hello(domain) == SmtpState("Hello", domain, <<>>, FALSE, <<>>, "")
HelloAuth(domain) == SmtpState("HelloAuth", domain, <<>>, FALSE, <<>>, "")
Auth(domain, mechanism) == SmtpState("Auth", domain, <<>>, FALSE, <<>>, mechanism)
Mail(domain, reverse_path, is8bit) ==
  SmtpState("Mail", domain, reverse_path, is8bit, <<>>, "")
Rcpt(domain, reverse_path, is8bit, forward_path) ==
  SmtpState("Rcpt", domain, reverse_path, is8bit, forward_path, "")
Data(domain) == SmtpState("Data", domain, <<>>, FALSE, <<>>, "")

\* The fields of StateMachine other than smtp.
Fsm(ip, mechs, as, t, ap) ==
  [ip |-> ip, auth_mechanisms |-> mechs, auth_state |-> as, tls |-> t,
   auth_plain |-> ap]

\* A call of a Handler method with the Response it returned, a call of
\* Handler::data with its io::Result, and no call.
Call(cb, args, ret) == [cb |-> cb, args |-> args, ret |-> ret, ok |-> TRUE]
DataCall(buf, ok) == [cb |-> "data", args |-> <<buf>>, ret |-> empty, ok |-> ok]
NoCall == Call("none", <<>>, empty)

\* What a State::handle returns, together with the fsm fields it leaves
\* behind and the Handler method it called.
Out(tr, fsm, made) ==
  [res |-> tr.res, next |-> tr.next, fsm |-> fsm, call |-> made]
Pair(res, next) == [res |-> res, next |-> next]

\* Return the next state depending on the response
next_state(current, res, next) ==
  IF res.action = "Close" THEN Pair(res, None)
  ELSE IF res.is_error THEN Pair(res, current)
  ELSE Pair(res, next)

\* transform_state without its is_error branch: an error response fires
\* the transition.
transform_state_IgnoresError(current, res, next) ==
  IF res.action = "Close" THEN Pair(res, None)
  ELSE Pair(res, next)

\* Convert the current state to the next state depending on the response
transform_state(current, res, next) ==
  IF res.action = "Close" THEN Pair(res, None)
  ELSE IF res.is_error THEN Pair(res, current)
  ELSE Pair(res, next)

unhandled(current) == Pair(BAD_SEQUENCE_COMMANDS, current)

\* handle_rset without the match on auth_state.
handle_rset_AlwaysHello(fsm, domain) == Pair(OK, Hello(domain))

handle_rset(fsm, domain) ==
  IF fsm.auth_state = "Unavailable"
  THEN Pair(OK, Hello(domain))
  ELSE Pair(OK, HelloAuth(domain))

\* handle_helo without the match on auth_state: the hello callback is
\* consulted also when authentication is configured.
handle_helo_IgnoresAuth(current, fsm, h, domain) ==
  Out(next_state(current, h.res, Hello(domain)), fsm,
      Call("helo", <<fsm.ip, domain>>, h.res))

handle_helo(current, fsm, h, domain) ==
  IF fsm.auth_state = "Unavailable"
  THEN Out(next_state(current, h.res, Hello(domain)), fsm,
           Call("helo", <<fsm.ip, domain>>, h.res))
  ELSE \* If authentication is required the client should be using EHLO
       Out(Pair(BAD_HELLO, current), fsm, NoCall)

extension(mechanism) == IF mechanism = "Plain" THEN "AUTH PLAIN" ELSE ""

\* ehlo_response testing tls against Active instead of Inactive: STARTTLS
\* is offered whenever tls is not active.
ehlo_response_StartTlsUnlessActive(fsm) ==
  LET extensions ==
        IF fsm.tls # "Active" THEN <<"8BITMIME", "STARTTLS">>
        ELSE <<"8BITMIME">> \o
             [i \in 1..Len(fsm.auth_mechanisms) |-> extension(fsm.auth_mechanisms[i])]
  IN dynamic(250, "server offers extensions:", extensions)

ehlo_response(fsm) ==
  LET extensions ==
        IF fsm.tls = "Inactive" THEN <<"8BITMIME", "STARTTLS">>
        ELSE <<"8BITMIME">> \o
             [i \in 1..Len(fsm.auth_mechanisms) |-> extension(fsm.auth_mechanisms[i])]
  IN dynamic(250, "server offers extensions:", extensions)

\* handle_ehlo that takes an authenticated client to Hello.
handle_ehlo_HelloWhenAuthenticated(current, fsm, h, domain) ==
  LET res == IF h.res.code = 250 THEN ehlo_response(fsm) ELSE h.res
      helo_call == Call("helo", <<fsm.ip, domain>>, h.res)
  IN IF fsm.auth_state \in {"Unavailable", "Authenticated"}
     THEN Out(next_state(current, res, Hello(domain)), fsm, helo_call)
     ELSE Out(next_state(current, res, HelloAuth(domain)), fsm, helo_call)

\* handle_ehlo that puts the domain into the state it stays in when the
\* helo callback refused it.
handle_ehlo_RemembersRejected(current, fsm, h, domain) ==
  LET res == IF h.res.code = 250 THEN ehlo_response(fsm) ELSE h.res
      helo_call == Call("helo", <<fsm.ip, domain>>, h.res)
  IN IF fsm.auth_state = "Unavailable"
     THEN Out(next_state([current EXCEPT !.domain = domain], res, Hello(domain)), fsm, helo_call)
     ELSE Out(next_state([current EXCEPT !.domain = domain], res, HelloAuth(domain)), fsm, helo_call)

handle_ehlo(current, fsm, h, domain) ==
  LET res == IF h.res.code = 250 THEN ehlo_response(fsm) ELSE h.res
      helo_call == Call("helo", <<fsm.ip, domain>>, h.res)
  IN IF fsm.auth_state = "Unavailable"
     THEN Out(next_state(current, res, Hello(domain)), fsm, helo_call)
     ELSE Out(next_state(current, res, HelloAuth(domain)), fsm, helo_call)

\* default_handler without its Quit arm.
default_handler_NoQuit(current, fsm, h, c) ==
  CASE c.tag = "Helo" -> handle_helo(current, fsm, h, c.arg)
    [] c.tag = "Ehlo" -> handle_ehlo(current, fsm, h, c.arg)
    [] OTHER -> Out(unhandled(current), fsm, NoCall)

\* default_handler with the Cmd::Vrfy arm of Hello::handle.
default_handler_AnswersVrfy(current, fsm, h, c) ==
  CASE c.tag = "Quit" -> Out(Pair(GOODBYE, None), fsm, NoCall)
    [] c.tag = "Helo" -> handle_helo(current, fsm, h, c.arg)
    [] c.tag = "Ehlo" -> handle_ehlo(current, fsm, h, c.arg)
    [] c.tag = "Vrfy" -> Out(Pair(VERIFY_RESPONSE, current), fsm, NoCall)
    [] OTHER -> Out(unhandled(current), fsm, NoCall)

\* default_handler that answers NOOP with 250 OK.
default_handler_AnswersNoop(current, fsm, h, c) ==
  CASE c.tag = "Quit" -> Out(Pair(GOODBYE, None), fsm, NoCall)
    [] c.tag = "Helo" -> handle_helo(current, fsm, h, c.arg)
    [] c.tag = "Ehlo" -> handle_ehlo(current, fsm, h, c.arg)
    [] c.tag = "Noop" -> Out(Pair(OK, current), fsm, NoCall)
    [] OTHER -> Out(unhandled(current), fsm, NoCall)

default_handler(current, fsm, h, c) ==
  CASE c.tag = "Quit" -> Out(Pair(GOODBYE, None), fsm, NoCall)
    [] c.tag = "Helo" -> handle_helo(current, fsm, h, c.arg)
    [] c.tag = "Ehlo" -> handle_ehlo(current, fsm, h, c.arg)
    [] OTHER -> Out(unhandled(current), fsm, NoCall)

\* The response of the auth_plain callback and the fsm with its auth_state
\* set from the response code.
authenticate(fsm, h, creds) ==
  [res |-> h.res,
   fsm |-> [fsm EXCEPT !.auth_state =
              IF h.res.code = 235 THEN "Authenticated" ELSE "RequiresAuth"],
   call |-> Call("auth_plain", <<creds.authorization_id,
                                 creds.authentication_id, creds.password>>,
                 h.res)]

\* allow_auth_plain without the tls test.
allow_auth_plain_IgnoresTls(fsm) == fsm.auth_plain

allow_auth_plain(fsm) == fsm.auth_plain /\ fsm.tls = "Active"

\* Idle::handle that answers StartedTls without setting fsm.tls.
IdleHandle_IgnoresSignal(self, fsm, h, c) ==
  CASE c.tag = "StartedTls" -> Out(Pair(EMPTY_RESPONSE, self), fsm, NoCall)
    [] c.tag = "Rset" -> Out(Pair(OK, self), fsm, NoCall)
    [] OTHER -> default_handler(self, fsm, h, c)

IdleHandle(self, fsm, h, c) ==
  CASE c.tag = "StartedTls" ->
         Out(Pair(EMPTY_RESPONSE, self), [fsm EXCEPT !.tls = "Active"], NoCall)
    [] c.tag = "Rset" -> Out(Pair(OK, self), fsm, NoCall)
    [] OTHER -> default_handler(self, fsm, h, c)

HelloHandle(self, fsm, h, c) ==
  CASE c.tag = "Mail" ->
         Out(transform_state(self, h.res,
                             Mail(self.domain, c.arg.reverse_path, c.arg.is8bit)),
             fsm, Call("mail", <<fsm.ip, self.domain, c.arg.reverse_path>>, h.res))
    [] c.tag = "StartTls" /\ fsm.tls = "Inactive" ->
         Out(Pair(START_TLS, Idle), fsm, NoCall)
    [] c.tag = "Vrfy" -> Out(Pair(VERIFY_RESPONSE, self), fsm, NoCall)
    [] c.tag = "Rset" -> Out(handle_rset(fsm, self.domain), fsm, NoCall)
    [] OTHER -> default_handler(self, fsm, h, c)

\* HelloAuth::handle with the Cmd::Mail arm of Hello::handle.
HelloAuthHandle_AcceptsMail(self, fsm, h, c) ==
  CASE c.tag = "Mail" ->
         Out(transform_state(self, h.res,
                             Mail(self.domain, c.arg.reverse_path, c.arg.is8bit)),
             fsm, Call("mail", <<fsm.ip, self.domain, c.arg.reverse_path>>, h.res))
    [] c.tag = "StartTls" -> Out(Pair(START_TLS, Idle), fsm, NoCall)
    [] c.tag = "AuthPlain" /\ allow_auth_plain(fsm) ->
         LET transform(a) ==
               Out(transform_state(self, a.res, Hello(self.domain)), a.fsm, a.call)
         IN transform(authenticate(fsm, h, c.arg))
    [] c.tag = "AuthPlainEmpty" /\ allow_auth_plain(fsm) ->
         Out(Pair(EMPTY_AUTH_CHALLENGE, Auth(self.domain, "Plain")), fsm, NoCall)
    [] c.tag = "Rset" -> Out(handle_rset(fsm, self.domain), fsm, NoCall)
    [] OTHER -> default_handler(self, fsm, h, c)

HelloAuthHandle(self, fsm, h, c) ==
  CASE c.tag = "StartTls" -> Out(Pair(START_TLS, Idle), fsm, NoCall)
    [] c.tag = "AuthPlain" /\ allow_auth_plain(fsm) ->
         LET transform(a) ==
               Out(transform_state(self, a.res, Hello(self.domain)), a.fsm, a.call)
         IN transform(authenticate(fsm, h, c.arg))
    [] c.tag = "AuthPlainEmpty" /\ allow_auth_plain(fsm) ->
         Out(Pair(EMPTY_AUTH_CHALLENGE, Auth(self.domain, "Plain")), fsm, NoCall)
    [] c.tag = "Rset" -> Out(handle_rset(fsm, self.domain), fsm, NoCall)
    [] OTHER -> default_handler(self, fsm, h, c)

\* Auth::handle that moves to Hello whatever the auth_plain callback
\* answered.
AuthHandle_IgnoresFailure(self, fsm, h, c) ==
  IF c.tag = "AuthResponse"
  THEN LET transform(a) == Out(Pair(a.res, Hello(self.domain)), a.fsm, a.call)
       IN transform(authenticate(fsm, h, decode_sasl_plain(c.arg)))
  ELSE Out(unhandled(self), fsm, NoCall)

AuthHandle(self, fsm, h, c) ==
  IF c.tag = "AuthResponse"
  THEN LET transform(a) ==
             IF a.res.is_error
             THEN Out(Pair(a.res, HelloAuth(self.domain)), a.fsm, a.call)
             ELSE Out(Pair(a.res, Hello(self.domain)), a.fsm, a.call)
       IN transform(authenticate(fsm, h, decode_sasl_plain(c.arg)))
  ELSE Out(unhandled(self), fsm, NoCall)

\* Mail::handle that moves to Rcpt with the recipient also when the rcpt
\* callback rejected it.
MailHandle_KeepsRejected(self, fsm, h, c) ==
  CASE c.tag = "Rcpt" ->
         Out(next_state(Rcpt(self.domain, self.reverse_path, self.is8bit,
                             <<c.arg>>),
                        h.res,
                        Rcpt(self.domain, self.reverse_path, self.is8bit,
                             <<c.arg>>)),
             fsm, Call("rcpt", <<c.arg>>, h.res))
    [] c.tag = "Rset" -> Out(handle_rset(fsm, self.domain), fsm, NoCall)
    [] OTHER -> default_handler(self, fsm, h, c)

\* Mail::handle with the Cmd::Data arm of Rcpt::handle.
MailHandle_AcceptsData(self, fsm, h, c) ==
  CASE c.tag = "Data" ->
         Out(transform_state(self, IF h.res.is_error THEN h.res ELSE START_DATA,
                             Data(self.domain)),
             fsm, Call("data_start", <<self.domain, self.reverse_path,
                                       self.is8bit, self.forward_path>>, h.res))
    [] c.tag = "Rcpt" ->
         Out(transform_state(self, h.res,
                             Rcpt(self.domain, self.reverse_path, self.is8bit,
                                  <<c.arg>>)),
             fsm, Call("rcpt", <<c.arg>>, h.res))
    [] c.tag = "Rset" -> Out(handle_rset(fsm, self.domain), fsm, NoCall)
    [] OTHER -> default_handler(self, fsm, h, c)

MailHandle(self, fsm, h, c) ==
  CASE c.tag = "Rcpt" ->
         Out(transform_state(self, h.res,
                             Rcpt(self.domain, self.reverse_path, self.is8bit,
                                  <<c.arg>>)),
             fsm, Call("rcpt", <<c.arg>>, h.res))
    [] c.tag = "Rset" -> Out(handle_rset(fsm, self.domain), fsm, NoCall)
    [] OTHER -> default_handler(self, fsm, h, c)

\* Rcpt::handle that returns the data_start response itself instead of
\* START_DATA.
RcptHandle_KeepsHandlerResponse(self, fsm, h, c) ==
  CASE c.tag = "Data" ->
         Out(transform_state(self, h.res, Data(self.domain)), fsm,
             Call("data_start", <<self.domain, self.reverse_path,
                                  self.is8bit, self.forward_path>>, h.res))
    [] c.tag = "Rcpt" ->
         Out(transform_state(self, h.res,
                             Rcpt(self.domain, self.reverse_path, self.is8bit,
                                  Append(self.forward_path, c.arg))),
             fsm, Call("rcpt", <<c.arg>>, h.res))
    [] c.tag = "Rset" -> Out(handle_rset(fsm, self.domain), fsm, NoCall)
    [] OTHER -> default_handler(self, fsm, h, c)

\* Rcpt::handle that puts a new recipient at the front of forward_path.
RcptHandle_PrependsRecipient(self, fsm, h, c) ==
  CASE c.tag = "Data" ->
         LET res == IF h.res.is_error THEN h.res ELSE START_DATA
         IN Out(transform_state(self, res, Data(self.domain)), fsm,
                Call("data_start", <<self.domain, self.reverse_path,
                                     self.is8bit, self.forward_path>>, h.res))
    [] c.tag = "Rcpt" ->
         Out(transform_state(self, h.res,
                             Rcpt(self.domain, self.reverse_path, self.is8bit,
                                  <<c.arg>> \o self.forward_path)),
             fsm, Call("rcpt", <<c.arg>>, h.res))
    [] c.tag = "Rset" -> Out(handle_rset(fsm, self.domain), fsm, NoCall)
    [] OTHER -> default_handler(self, fsm, h, c)

\* Rcpt::handle with the Cmd::Mail arm of Hello::handle.
RcptHandle_AcceptsMail(self, fsm, h, c) ==
  CASE c.tag = "Data" ->
         LET res == IF h.res.is_error THEN h.res ELSE START_DATA
         IN Out(transform_state(self, res, Data(self.domain)), fsm,
                Call("data_start", <<self.domain, self.reverse_path,
                                     self.is8bit, self.forward_path>>, h.res))
    [] c.tag = "Rcpt" ->
         Out(transform_state(self, h.res,
                             Rcpt(self.domain, self.reverse_path, self.is8bit,
                                  Append(self.forward_path, c.arg))),
             fsm, Call("rcpt", <<c.arg>>, h.res))
    [] c.tag = "Mail" ->
         Out(transform_state(self, h.res,
                             Mail(self.domain, c.arg.reverse_path, c.arg.is8bit)),
             fsm, Call("mail", <<fsm.ip, self.domain, c.arg.reverse_path>>, h.res))
    [] c.tag = "Rset" -> Out(handle_rset(fsm, self.domain), fsm, NoCall)
    [] OTHER -> default_handler(self, fsm, h, c)

RcptHandle(self, fsm, h, c) ==
  CASE c.tag = "Data" ->
         LET res == IF h.res.is_error THEN h.res ELSE START_DATA
         IN Out(transform_state(self, res, Data(self.domain)), fsm,
                Call("data_start", <<self.domain, self.reverse_path,
                                     self.is8bit, self.forward_path>>, h.res))
    [] c.tag = "Rcpt" ->
         Out(transform_state(self, h.res,
                             Rcpt(self.domain, self.reverse_path, self.is8bit,
                                  Append(self.forward_path, c.arg))),
             fsm, Call("rcpt", <<c.arg>>, h.res))
    [] c.tag = "Rset" -> Out(handle_rset(fsm, self.domain), fsm, NoCall)
    [] OTHER -> default_handler(self, fsm, h, c)

\* Data::handle that leaves Data whatever data_end returns.
DataHandle_ErrorLeavesData(self, fsm, h, c) ==
  IF c.tag = "DataEnd"
  THEN Out(next_state(self, [h.res EXCEPT !.is_error = FALSE],
                      Hello(self.domain)), fsm,
           Call("data_end", <<>>, h.res))
  ELSE Out(unhandled(self), fsm, NoCall)

DataHandle(self, fsm, h, c) ==
  IF c.tag = "DataEnd"
  THEN Out(transform_state(self, h.res, Hello(self.domain)), fsm,
           Call("data_end", <<>>, h.res))
  ELSE Out(unhandled(self), fsm, NoCall)

\* Data::process_line that removes the leading dot before it looks for the
\* terminator.
DataProcessLine_TerminatorAfterUnstuffing(h, line) ==
  LET body == IF line # <<>> /\ line[1] = "." THEN Tail(line) ELSE line
  IN IF body = <<".", CR, LF>> \/ line = <<".", CR, LF>>
     THEN [either |-> Left(Command("DataEnd", <<>>)), call |-> NoCall]
     ELSE [either |-> IF h.data_ok THEN Right(EMPTY_RESPONSE)
                      ELSE Right(TRANSACTION_FAILED),
           call |-> DataCall(body, h.data_ok)]

\* Data::process_line that hands the line to the data callback as received.
DataProcessLine_KeepsDot(h, line) ==
  IF line = <<".", CR, LF>>
  THEN [either |-> Left(Command("DataEnd", <<>>)), call |-> NoCall]
  ELSE [either |-> IF h.data_ok THEN Right(EMPTY_RESPONSE)
                   ELSE Right(TRANSACTION_FAILED),
        call |-> DataCall(line, h.data_ok)]

\* Data::process_line that does not call the data callback for a line that
\* begins with a dot.
DataProcessLine_OmitsDotLine(h, line) ==
  IF line = <<".", CR, LF>>
  THEN [either |-> Left(Command("DataEnd", <<>>)), call |-> NoCall]
  ELSE IF line # <<>> /\ line[1] = "."
  THEN [either |-> Right(EMPTY_RESPONSE), call |-> NoCall]
  ELSE [either |-> IF h.data_ok THEN Right(EMPTY_RESPONSE)
                   ELSE Right(TRANSACTION_FAILED),
        call |-> DataCall(line, h.data_ok)]

\* Data::process_line that answers a failed data callback like a successful
\* one.
DataProcessLine_IgnoresFailure(h, line) ==
  IF line = <<".", CR, LF>>
  THEN [either |-> Left(Command("DataEnd", <<>>)), call |-> NoCall]
  ELSE LET body == IF line # <<>> /\ line[1] = "." THEN Tail(line) ELSE line
       IN [either |-> Right(EMPTY_RESPONSE),
           call |-> DataCall(body, h.data_ok)]

\* Data::process_line: the terminator becomes DataEnd, any other line goes
\* to the data callback without one leading dot.
DataProcessLine(h, line) ==
  IF line = <<".", CR, LF>>
  THEN [either |-> Left(Command("DataEnd", <<>>)), call |-> NoCall]
  ELSE LET body == IF line # <<>> /\ line[1] = "." THEN Tail(line) ELSE line
       IN [either |-> IF h.data_ok THEN Right(EMPTY_RESPONSE)
                      ELSE Right(TRANSACTION_FAILED),
           call |-> DataCall(body, h.data_ok)]

\* Auth::process_line
AuthProcessLine(line) == [either |-> ParsedAuthResponse[line], call |-> NoCall]

\* State::process_line, the default of the trait
StateProcessLine(line) == [either |-> Parsed[line], call |-> NoCall]

\* StateMachine::new that requires authentication whatever the mechanisms.
new_AlwaysRequiresAuth(ip, mechs, allow_start_tls) ==
  Fsm(ip, mechs,
      "RequiresAuth",
      IF allow_start_tls THEN "Inactive" ELSE "Unavailable",
      \E i \in 1..Len(mechs) : mechs[i] = "Plain")

\* StateMachine::new
new(ip, mechs, allow_start_tls) ==
  Fsm(ip, mechs,
      IF mechs = <<>> THEN "Unavailable" ELSE "RequiresAuth",
      IF allow_start_tls THEN "Inactive" ELSE "Unavailable",
      \E i \in 1..Len(mechs) : mechs[i] = "Plain")

\* StateMachine::command: respond and change state with the given command
StateMachineCommand(state, fsm, h, c) ==
  CASE state.id = "Invalid" -> Out(Pair(INVALID_STATE, None), fsm, NoCall)
    [] state.id = "Idle" -> IdleHandle(state, fsm, h, c)
    [] state.id = "Hello" -> HelloHandle(state, fsm, h, c)
    [] state.id = "HelloAuth" -> HelloAuthHandle(state, fsm, h, c)
    [] state.id = "Auth" -> AuthHandle(state, fsm, h, c)
    [] state.id = "Mail" -> MailHandle(state, fsm, h, c)
    [] state.id = "Rcpt" -> RcptHandle(state, fsm, h, c)
    [] state.id = "Data" -> DataHandle(state, fsm, h, c)

\* StateMachine::process_line that sends the lines received in Data to the
\* command parser.
StateMachineProcessLine_DataParsesCommands(state, h, line) ==
  CASE state.id = "Invalid" -> [either |-> Right(INVALID_STATE), call |-> NoCall]
    [] state.id = "Auth" -> AuthProcessLine(line)
    [] OTHER -> StateProcessLine(line)

\* StateMachine::process_line that parses the line also when the session
\* has no current state.
StateMachineProcessLine_ParsesWithoutState(state, h, line) ==
  CASE state.id = "Data" -> DataProcessLine(h, line)
    [] state.id = "Auth" -> AuthProcessLine(line)
    [] OTHER -> StateProcessLine(line)

\* StateMachine::process_line
StateMachineProcessLine(state, h, line) ==
  CASE state.id = "Invalid" -> [either |-> Right(INVALID_STATE), call |-> NoCall]
    [] state.id = "Data" -> DataProcessLine(h, line)
    [] state.id = "Auth" -> AuthProcessLine(line)
    [] OTHER -> StateProcessLine(line)

\* ----------------------------------------------------------------- smtp.rs
\* The outcome of a call on the session: what StateMachine::command or
\* process_line produced, and the command that was handed to
\* StateMachine::command (tag "None" when there was none).
Outcome(o, c) ==
  [res |-> o.res, next |-> o.next, fsm |-> o.fsm, call |-> o.call, cmd |-> c]

\* Session::command
SessionCommand(state, fsm, h, c) ==
  Outcome(StateMachineCommand(state, fsm, h, c), c)

\* Session::process that drops the protocol state when the line gave no
\* command.
SessionProcess_ErrorEndsSession(state, fsm, h, line) ==
  LET respond(p) ==
        IF p.either.left
        THEN SessionCommand(state, fsm, h, p.either.cmd)
        ELSE Outcome(Out(Pair(p.either.res, None), fsm, p.call), p.either.cmd)
  IN respond(StateMachineProcessLine(state, h, line))

\* Session::process
SessionProcess(state, fsm, h, line) ==
  LET respond(p) ==
        IF p.either.left
        THEN SessionCommand(state, fsm, h, p.either.cmd)
        ELSE Outcome(Out(Pair(p.either.res, state), fsm, p.call), p.either.cmd)
  IN respond(StateMachineProcessLine(state, h, line))

\* Session::tls_active
SessionTlsActive(state, fsm, h) ==
  SessionCommand(state, fsm, h, Command("StartedTls", <<>>))

\* Session::greeting
greeting(name) == dynamic(220, <<name, " ESMTP">>, <<>>)

\* -------------------------------------------------------- the session
\* What the embedding's Handler answers: the Response of the callback that
\* is called (one of the public constants of response.rs), and whether its
\* data callback succeeds.
HandlerResponses == {OK, AUTH_OK, GOODBYE, NO_SERVICE, INVALID_CREDENTIALS}

Handlers ==
  { [res |-> r, data_ok |-> TRUE] : r \in HandlerResponses }
    \cup { [res |-> OK, data_ok |-> FALSE] }

\* The mechanism lists SessionBuilder::enable_auth can build.
PlainList(n) == [i \in 1..n |-> "Plain"]

MechLists == { PlainList(n) : n \in 0..MaxMechs }

\* The Handler whose methods keep their default bodies (EmptyHandler and
\* DataHandler of the tests): every callback accepts.
AcceptAll == [res |-> OK, data_ok |-> TRUE]

\* The lines of the test smtp::tests::data, in order.
Scenario == <<LineHelo, LineMail, LineRcptR, LineData, LineBody, LineDot>>

ServerName == "some.name"
RemoteIp == "127.0.0.1"

VARIABLES
  start_tls_extension, \* SessionBuilder::start_tls_extension of the build
  auth_mechanisms,     \* StateMachine::auth_mechanisms
  auth_state,          \* StateMachine::auth_state
  tls,                 \* StateMachine::tls
  auth_plain_flag,     \* StateMachine::auth_plain
  smtp,                \* StateMachine::smtp
  op,                  \* the last operation called on the session
  input,               \* the line given to the last process call
  response,            \* the response the last operation computed
  callback,            \* the Handler method the last operation called
  handled,             \* the command the last operation gave to the fsm
  prev,                \* smtp, auth_state and tls before the last operation
  script,              \* lines of Scenario matched since the build, or -1
  accepted_rcpts,      \* paths the rcpt callback accepted since the last
                       \* MAIL FROM the mail callback accepted
  body_sent,           \* DataSpec: the body lines the peer sent in the
                       \* Data phase the session is in or has just left
  body_seen,           \* DataSpec: the arguments of the data callback in
                       \* the Data phase the session is in or has just left
  data_failed,         \* DataSpec: the data callback returned Err in the
                       \* Data phase the session is in or has just left
  written,             \* WriteSpec: what Response::write_to wrote
  helo_domain,         \* EnvelopeSpec: the domain of the last HELO or EHLO
                       \* that was answered without error, <<>> before it
  mail_from,           \* EnvelopeSpec: the path and the BODY=8BITMIME flag
                       \* of the last MAIL FROM answered without error
  chat,                \* StoreSpec: the ids in the rows of the table chat
  store_call,          \* StoreSpec: the last call on the Store, its result
                       \* and the rows of chat before it
  rcpts,               \* ProductSpec: MailHandler::rcpts
  rcpts_at_data_end,   \* ProductSpec: MailHandler::rcpts as the last
                       \* data_end found it
  end_refused          \* DataSpec: the data_end callback returned an error
                       \* in the Data phase the session is in and the
                       \* session stayed in it

vars == <<start_tls_extension, auth_mechanisms, auth_state, tls,
          auth_plain_flag, smtp, op, input, response, callback, handled,
          prev, script, accepted_rcpts, body_sent, body_seen,
          data_failed, written, helo_domain, mail_from,
          chat, store_call, rcpts, rcpts_at_data_end, end_refused>>

TheFsm == Fsm(RemoteIp, auth_mechanisms, auth_state, tls, auth_plain_flag)

Snapshot == [smtp |-> smtp, auth_state |-> auth_state, tls |-> tls]

\* SessionBuilder::build; first is the value of the response variable.
Built(first) ==
  \E mechs \in MechLists, allow_start_tls \in BOOLEAN :
    LET fsm == new(RemoteIp, mechs, allow_start_tls)
    IN /\ start_tls_extension = allow_start_tls
       /\ auth_mechanisms = fsm.auth_mechanisms
       /\ auth_state = fsm.auth_state
       /\ tls = fsm.tls
       /\ auth_plain_flag = fsm.auth_plain
       /\ smtp = Idle
       /\ op = "build"
       /\ input = <<>>
       /\ response = first
       /\ callback = NoCall
       /\ handled = Command("None", <<>>)
       /\ prev = [smtp |-> Idle, auth_state |-> fsm.auth_state, tls |-> fsm.tls]
       /\ script = 0
       /\ accepted_rcpts = <<>>
       /\ body_sent = <<>>
       /\ body_seen = <<>>
       /\ data_failed = FALSE
       /\ written = <<>>
       /\ helo_domain = <<>>
       /\ mail_from = [known |-> FALSE, reverse_path |-> <<>>, is8bit |-> FALSE]
       /\ rcpts = <<>>
       /\ rcpts_at_data_end = <<>>
       /\ end_refused = FALSE

\* Store::new with the rows its table chat holds.
NewStore(rows) ==
  /\ chat = rows
  /\ store_call = [name |-> "new", chat_id |-> "", ret |-> TRUE,
                   before |-> rows]

\* A session beside a store whose table chat is empty.
Init == Built(EMPTY_RESPONSE) /\ NewStore({})

\* The recipients accepted in the current transaction after an operation
\* with outcome o: none after a mail callback that returned a non-error
\* response, one more after such a rcpt callback.
Accepted(o) ==
  CASE o.call.cb = "mail" /\ ~o.call.ret.is_error -> <<>>
    [] o.call.cb = "rcpt" /\ ~o.call.ret.is_error ->
         Append(accepted_rcpts, o.call.args[1])
    [] OTHER -> accepted_rcpts

\* The effect of an operation's outcome on the session.
Apply(o) ==
  /\ smtp' = o.next
  /\ auth_state' = o.fsm.auth_state
  /\ tls' = o.fsm.tls
  /\ auth_plain_flag' = o.fsm.auth_plain
  /\ auth_mechanisms' = o.fsm.auth_mechanisms
  /\ response' = o.res
  /\ callback' = o.call
  /\ handled' = o.cmd
  /\ prev' = Snapshot
  /\ accepted_rcpts' = Accepted(o)
  /\ UNCHANGED start_tls_extension

\* The model stops accepting recipients when the envelope holds MaxRcpts.
WithinBounds(l) ==
  ~(smtp.id = "Rcpt" /\ Len(smtp.forward_path) >= MaxRcpts
      /\ l \in {LineRcptR, LineRcptQ})

\* Session::process(line) with the handler h.
ProcessLine(l, h) ==
  /\ Apply(SessionProcess(smtp, TheFsm, h, l))
  /\ op' = "process"
  /\ input' = l
  /\ script' = IF /\ script \in 0..(Len(Scenario) - 1)
                  /\ l = Scenario[script + 1]
                  /\ h = AcceptAll
               THEN script + 1 ELSE -1

\* Session::process(line)
Process ==
  \E l \in InputLines, h \in Handlers :
    /\ WithinBounds(l)
    /\ ProcessLine(l, h)
    /\ UNCHANGED <<body_sent, body_seen, data_failed, written, helo_domain,
                   mail_from,
          chat, store_call, rcpts, rcpts_at_data_end, end_refused>>

\* Session::tls_active()
TlsActive ==
  \E h \in Handlers :
    /\ Apply(SessionTlsActive(smtp, TheFsm, h))
    /\ op' = "tls_active"
    /\ input' = <<>>
    /\ script' = -1
    /\ UNCHANGED <<body_sent, body_seen, data_failed, written, helo_domain,
                   mail_from,
          chat, store_call, rcpts, rcpts_at_data_end, end_refused>>

\* Session::greeting()
Greeting ==
  /\ response' = greeting(ServerName)
  /\ op' = "greeting"
  /\ input' = <<>>
  /\ callback' = NoCall
  /\ handled' = Command("None", <<>>)
  /\ prev' = Snapshot
  /\ script' = -1
  /\ UNCHANGED <<start_tls_extension, auth_mechanisms, auth_state, tls,
                 auth_plain_flag, smtp, accepted_rcpts, body_sent, body_seen,
                 data_failed, written, helo_domain, mail_from,
          chat, store_call, rcpts, rcpts_at_data_end, end_refused>>

Next == Process \/ TlsActive \/ Greeting

Spec == Init /\ [][Next]_vars

\* The dot-stuffing the peer applies to a body line: one dot prepended
\* when the line begins with a dot.
stuff(B) == IF B # <<>> /\ B[1] = "." THEN <<".">> \o B ELSE B

\* The body lines whose stuffed form is one of the input lines.
BodyLines ==
  { B \in InputLines \cup { Tail(l) : l \in InputLines } :
      stuff(B) \in InputLines }

\* The body line the peer sent as the line l.
unstuffed(l) == CHOOSE B \in BodyLines : stuff(B) = l

\* The lines of Scenario that lead a session into Data.
EnvelopeLines == {LineHelo, LineMail, LineRcptR, LineData}

\* Session::process(line) in sessions that follow Scenario up to the body
\* and then send up to MaxBody lines of any content before the terminator.
DataProcess ==
  \E l \in InputLines, h \in Handlers :
    /\ WithinBounds(l)
    /\ IF smtp.id = "Data"
       THEN Len(body_sent) < MaxBody \/ l = LineDot
       ELSE l \in EnvelopeLines /\ h = AcceptAll
    /\ ProcessLine(l, h)
    /\ body_sent' = IF smtp.id # "Data" THEN <<>>
                    ELSE IF l = LineDot THEN body_sent
                    ELSE Append(body_sent, unstuffed(l))
    /\ body_seen' = IF smtp.id # "Data" THEN <<>>
                    ELSE IF callback'.cb = "data"
                    THEN Append(body_seen, callback'.args[1])
                    ELSE body_seen
    /\ data_failed' = IF smtp.id # "Data" THEN FALSE
                      ELSE data_failed \/ (callback'.cb = "data" /\ ~callback'.ok)
    /\ end_refused' = IF smtp.id # "Data" THEN FALSE
                      ELSE \/ end_refused
                           \/ /\ callback'.cb = "data_end"
                              /\ response'.is_error
                              /\ smtp'.id = "Data"
    /\ UNCHANGED <<written, helo_domain, mail_from, chat, store_call, rcpts,
                   rcpts_at_data_end>>

DataSpec == Init /\ [][DataProcess]_vars

\* Session::process(line) in which the Handler method that is called
\* panics.  StateMachine::command has taken the state out of self.smtp
\* before State::handle calls the method and assigns self.smtp after it
\* returned; Data::process_line calls handler.data on the borrowed state.
\* No fsm field is assigned before a Handler method is called.
ProcessPanics ==
  \E l \in InputLines :
    LET unwind(o) ==
          /\ o.call.cb # "none"
          /\ smtp' = IF o.cmd.tag = "None" THEN smtp ELSE None
          /\ callback' = [cb |-> "panic", args |-> <<o.call.cb>>,
                          ret |-> empty, ok |-> FALSE]
          /\ handled' = o.cmd
    IN /\ WithinBounds(l)
       /\ unwind(SessionProcess(smtp, TheFsm, AcceptAll, l))
       /\ op' = "panic"
       /\ input' = l
       /\ prev' = Snapshot
       /\ script' = -1
       /\ UNCHANGED <<start_tls_extension, auth_mechanisms, auth_state, tls,
                      auth_plain_flag, response, accepted_rcpts, body_sent,
                      body_seen, data_failed, written, helo_domain,
                      mail_from,
          chat, store_call, rcpts, rcpts_at_data_end, end_refused>>

PanicNext == Next \/ ProcessPanics

PanicSpec == Init /\ [][PanicNext]_vars

\* Session::process(line), with a record of the last HELO or EHLO and of
\* the last MAIL FROM that were answered without error.
EnvelopeProcess ==
  \E l \in InputLines, h \in Handlers :
    /\ WithinBounds(l)
    /\ ProcessLine(l, h)
    /\ helo_domain' = IF handled'.tag \in {"Helo", "Ehlo"} /\ ~response'.is_error
                      THEN handled'.arg
                      ELSE helo_domain
    /\ mail_from' = IF handled'.tag = "Mail" /\ ~response'.is_error
                    THEN [known |-> TRUE,
                          reverse_path |-> handled'.arg.reverse_path,
                          is8bit |-> (l = LineMail8bit)]
                    ELSE mail_from
    /\ UNCHANGED <<body_sent, body_seen, data_failed, written, chat,
                   store_call, rcpts, rcpts_at_data_end, end_refused>>

EnvelopeNext == EnvelopeProcess \/ TlsActive

EnvelopeSpec == Init /\ [][EnvelopeNext]_vars

\* ---------------------------------------------------------------- store.rs
\* The chat ids given to the Store.
ChatIds == {"some_chat_name", "c1", "c2"}

\* INSERT OR IGNORE INTO chat (id) VALUES (?): id is the primary key, a row
\* with the same id is left alone.
InsertOrIgnore(rows, chat_id) ==
  IF \E row \in rows : row = chat_id THEN rows ELSE rows \cup {chat_id}

\* DELETE FROM chat
DeleteWhere_EveryRow(rows, chat_id) == {}

\* DELETE FROM chat WHERE id = ?
DeleteWhere(rows, chat_id) == { row \in rows : row # chat_id }

\* Store::exist_chat: SELECT count(0) FROM chat WHERE id = ?, count > 0
exist_chat(rows, chat_id) ==
  Cardinality({ row \in rows : row = chat_id }) > 0

StoreCall(name, chat_id, ret) ==
  [name |-> name, chat_id |-> chat_id, ret |-> ret, before |-> chat]

SessionUnchanged ==
  UNCHANGED <<start_tls_extension, auth_mechanisms, auth_state, tls,
              auth_plain_flag, smtp, op, input, response, callback, handled,
              prev, script, accepted_rcpts, body_sent, body_seen,
              data_failed, written, helo_domain, mail_from, rcpts,
              rcpts_at_data_end, end_refused>>

\* Store::add_bot_to_chat
AddBotToChat ==
  \E c \in ChatIds :
    /\ chat' = InsertOrIgnore(chat, c)
    /\ store_call' = StoreCall("add_bot_to_chat", c, TRUE)
    /\ SessionUnchanged

\* Store::remove_bot_from_chat
RemoveBotFromChat ==
  \E c \in ChatIds :
    /\ chat' = DeleteWhere(chat, c)
    /\ store_call' = StoreCall("remove_bot_from_chat", c, TRUE)
    /\ SessionUnchanged

\* Store::exist_chat
ExistChat ==
  \E c \in ChatIds :
    /\ store_call' = StoreCall("exist_chat", c, exist_chat(chat, c))
    /\ UNCHANGED chat
    /\ SessionUnchanged

\* Store::mail_for_chat: adds the chat when it does not exist
MailForChat ==
  \E c \in ChatIds :
    /\ chat' = IF ~exist_chat(chat, c) THEN InsertOrIgnore(chat, c) ELSE chat
    /\ store_call' = StoreCall("mail_for_chat", c, TRUE)
    /\ SessionUnchanged

\* Store::new on a database that may hold chats already.
StoreInit == Built(EMPTY_RESPONSE) /\ \E rows \in SUBSET ChatIds : NewStore(rows)

StoreNext == AddBotToChat \/ RemoveBotFromChat \/ ExistChat \/ MailForChat

StoreSpec == StoreInit /\ [][StoreNext]_vars

\* --------------------------------------------------------- smtp_server.rs
\* What the methods of impl Handler for MailHandler return: AUTH_OK from
\* auth_plain, OK from every other method, Ok(()) from data.
MailHandler(cb) ==
  IF cb = "auth_plain" THEN [res |-> AUTH_OK, data_ok |-> TRUE]
  ELSE [res |-> OK, data_ok |-> TRUE]

\* MailHandler::rcpts after the method cb was called with args: rcpt pushes
\* its argument, data_end ends with clear(), no other method assigns it.
MailHandlerRcpts(cb, args) ==
  CASE cb = "rcpt" -> Append(rcpts, args[1])
    [] cb = "data_end" -> <<>>
    [] OTHER -> rcpts

\* The session of serve: no TLS (SslConfig::None) and no auth mechanism,
\* with the handler MailHandler::new built.
ProductInit ==
  /\ Init
  /\ auth_mechanisms = <<>>
  /\ ~start_tls_extension

\* Session::process(line) with a MailHandler as the handler.
ProductProcess ==
  \E l \in InputLines, h \in {MailHandler("auth_plain"), MailHandler("helo")} :
    /\ WithinBounds(l)
    /\ ProcessLine(l, h)
    /\ h = MailHandler(callback'.cb)
    /\ callback'.cb = "rcpt" => Len(rcpts) < MaxPending
    /\ rcpts' = MailHandlerRcpts(callback'.cb, callback'.args)
    /\ rcpts_at_data_end' = IF callback'.cb = "data_end" THEN rcpts
                            ELSE rcpts_at_data_end
    /\ UNCHANGED <<body_sent, body_seen, data_failed, written, helo_domain,
                   mail_from, chat, store_call, end_refused>>

ProductSpec == ProductInit /\ [][ProductProcess]_vars

\* The texts a dynamic response has in its tail.
Extensions == {"8BITMIME", "STARTTLS", "AUTH PLAIN"}

\* The tails of up to MaxTail texts.
Tails == UNION { [1..n -> Extensions] : n \in 0..MaxTail }

\* The responses the constructors of response.rs build from a static or
\* an application string.
StringResponses ==
  {EMPTY_RESPONSE, START_TLS, GOODBYE, AUTH_OK, OK, VERIFY_RESPONSE,
   EMPTY_AUTH_CHALLENGE, START_DATA, INVALID_STATE, NO_SERVICE,
   INTERNAL_ERROR, SYNTAX_ERROR, MISSING_PARAMETER, BAD_SEQUENCE_COMMANDS,
   INVALID_CREDENTIALS, NO_MAILBOX, BAD_HELLO, TRANSACTION_FAILED}
    \cup { custom(c, m) : c \in {250, 450}, m \in {"", "try later"} }
    \cup { dynamic(250, "server offers extensions:", t) : t \in Tails }

\* The responses built like the greeting, with a formatted head.
FormattedResponses ==
  { dynamic(220, <<ServerName, " ESMTP">>, t) : t \in Tails }

\* A session with a response that is about to be written.
WriteInit ==
  /\ \/ \E r \in StringResponses : Built(r)
     \/ \E r \in FormattedResponses : Built(r)
  /\ NewStore({})

\* Response::write_to(out)
WriteTo ==
  /\ written' = write_to(response)
  /\ op' = "write_to"
  /\ UNCHANGED <<start_tls_extension, auth_mechanisms, auth_state, tls,
                 auth_plain_flag, smtp, input, response, callback, handled,
                 prev, script, accepted_rcpts, body_sent, body_seen,
                 data_failed, helo_domain, mail_from,
          chat, store_call, rcpts, rcpts_at_data_end, end_refused>>

WriteSpec == WriteInit /\ [][WriteTo]_vars

\* ------------------------------------------------------------- properties
\* The states whose process_line is the command parser.
ParseStates == {"Idle", "Hello", "HelloAuth", "Mail", "Rcpt"}

\* The last operation went through the engine (process or tls_active).
Acted == op \in {"process", "tls_active"}

\* The last operation was an EHLO whose hello callback returned code 250.
Advertised ==
  /\ op = "process"
  /\ handled.tag = "Ehlo"
  /\ callback.cb = "helo"
  /\ callback.ret.code = 250

\* The codes and states the test smtp::tests::data expects after each line.
ScenarioCodes == <<250, 250, 250, 354, 0, 250>>
ScenarioStates == <<"Hello", "Mail", "Rcpt", "Data", "Data", "Hello">>

\* C1: in a session built without auth mechanisms whose handler accepts
\* everything, the lines HELO, MAIL FROM, RCPT TO, DATA, a body line and
\* the terminator, sent from Idle, are answered 250, 250, 250, 354,
\* no-reply, 250 and leave the session in Hello, Mail, Rcpt, Data, Data,
\* Hello.
C1_DataScenario ==
  (auth_mechanisms = <<>> /\ script \in 1..Len(Scenario)) =>
    /\ response.code = ScenarioCodes[script]
    /\ smtp.id = ScenarioStates[script]
    /\ script = 5 => response.action = "NoReply"

C1_ScenarioCompleted ==
  /\ auth_mechanisms = <<>>
  /\ script = Len(Scenario)
  /\ input = LineDot
  /\ smtp.id = "Hello"
  /\ response.code = 250

C3_AuthPlainOutcome ==
  (/\ op = "process"
   /\ prev.smtp.id = "HelloAuth"
   /\ handled.tag = "AuthPlain"
   /\ callback.cb = "auth_plain") =>
    IF callback.ret.code = 235
    THEN smtp.id = "Hello" /\ auth_state = "Authenticated"
    ELSE smtp.id = "HelloAuth" /\ auth_state = "RequiresAuth"

\* C4: plain-auth never succeeds when tls is not active: an AUTH PLAIN
\* command, with or without initial response, handled while tls is not
\* Active or Plain is not configured is answered 503 without calling
\* auth_plain and without changing the state, and auth_state is never
\* Authenticated in such a state.
C4_NoPlainAuthWithoutTls ==
  /\ (/\ op = "process"
      /\ handled.tag \in {"AuthPlain", "AuthPlainEmpty"}
      /\ (prev.tls # "Active" \/ "Plain" \notin Range(auth_mechanisms))) =>
       /\ response = BAD_SEQUENCE_COMMANDS
       /\ callback = NoCall
       /\ smtp = prev.smtp
       /\ auth_state = prev.auth_state
  /\ (tls # "Active" \/ "Plain" \notin Range(auth_mechanisms)) =>
       auth_state # "Authenticated"

C4_AuthPlainRefusedBeforeTls ==
  /\ op = "process"
  /\ handled.tag = "AuthPlain"
  /\ prev.smtp.id = "HelloAuth"
  /\ prev.tls = "Inactive"
  /\ "Plain" \in Range(auth_mechanisms)
  /\ response.code = 503

\* C5: whenever EHLO is answered with the extension advertisement, the
\* list has 8BITMIME as its first entry and contains STARTTLS if and only
\* if tls is Inactive at that moment.
C5_AdvertisesStartTlsIffInactive ==
  Advertised =>
    /\ response.code = 250
    /\ response.message.kind = "Dynamic"
    /\ response.message.tail[1] = "8BITMIME"
    /\ ("STARTTLS" \in Range(response.message.tail)) <=> (prev.tls = "Inactive")
    /\ tls = prev.tls

C5_StartTlsAdvertised ==
  /\ Advertised
  /\ prev.tls = "Inactive"
  /\ response.message.tail = <<"8BITMIME", "STARTTLS">>

\* C6: whenever EHLO is answered with the extension advertisement, the
\* list contains AUTH PLAIN if and only if tls is Active and Plain is among
\* the configured mechanisms.
C6_AdvertisesAuthPlainIffActive ==
  Advertised =>
    ("AUTH PLAIN" \in Range(response.message.tail))
      <=> (prev.tls = "Active" /\ "Plain" \in Range(auth_mechanisms))

\* C7: a STARTTLS command is accepted (220, action upgrade-tls, move to
\* Idle) only when tls is Inactive; when tls is Unavailable or Active it is
\* answered 503 and the state is unchanged, so no upgrade-tls response is
\* returned when tls is not Inactive.
C7_StartTlsOnlyWhenInactive ==
  /\ (op = "process" /\ handled.tag = "StartTls" /\ prev.tls # "Inactive") =>
       response = BAD_SEQUENCE_COMMANDS /\ smtp = prev.smtp
  /\ (Acted /\ response.action = "UpgradeTls") => prev.tls = "Inactive"

\* C8: in a session built without start-encryption support, tls is
\* Unavailable in every reachable state.
C8_UnavailableIsTerminal ==
  ~start_tls_extension => tls = "Unavailable"

\* C9: tls changes only when the encryption-became-active signal is
\* handled in Idle: it then becomes Active, the response is the empty
\* no-reply response and the state stays Idle.  Processing a line, and the
\* signal in any other state, leave tls unchanged; once Active it stays
\* Active.
C9_TlsChangesOnlyOnSignalInIdle ==
  /\ (op = "tls_active" /\ prev.smtp.id = "Idle") =>
       /\ tls = "Active"
       /\ response = EMPTY_RESPONSE
       /\ response.action = "NoReply"
       /\ smtp = prev.smtp
  /\ (op \in {"process", "greeting"}
        \/ (op = "tls_active" /\ prev.smtp.id # "Idle")) => tls = prev.tls
  /\ prev.tls = "Active" => tls = "Active"

C9_SignalActivatesTls ==
  /\ op = "tls_active"
  /\ prev.smtp.id = "Idle"
  /\ prev.tls = "Inactive"
  /\ tls = "Active"
  /\ smtp.id = "Idle"

\* C10 as stated by the specification: with auth mechanisms configured a
\* HELO is answered 550 Bad HELO without calling the hello callback and
\* the state is unchanged; with auth unavailable a HELO calls the hello
\* callback and on a non-error response moves to Hello.
C10_HeloAsStated ==
  (op = "process" /\ handled.tag = "Helo") =>
    IF prev.auth_state # "Unavailable"
    THEN response = BAD_HELLO /\ callback = NoCall /\ smtp = prev.smtp
    ELSE /\ callback.cb = "helo"
         /\ ~response.is_error => smtp = Hello(handled.arg)

\* C10, amended: as stated, except that with auth unavailable the session
\* moves to Hello on a non-error response whose action is not close (a
\* non-error response with action close, code 221, ends the session).
C10_Helo ==
  (op = "process" /\ handled.tag = "Helo") =>
    IF prev.auth_state # "Unavailable"
    THEN response = BAD_HELLO /\ callback = NoCall /\ smtp = prev.smtp
    ELSE /\ callback.cb = "helo"
         /\ response = callback.ret
         /\ (~response.is_error /\ response.action # "Close") =>
              smtp = Hello(handled.arg)

C10_HeloRefusedWithAuth ==
  /\ op = "process"
  /\ handled.tag = "Helo"
  /\ prev.auth_state = "RequiresAuth"
  /\ prev.smtp.id = "HelloAuth"
  /\ response.code = 550
  /\ smtp = prev.smtp

\* C11: a reset handled in Hello, HelloAuth, Mail or Rcpt replies 250 OK
\* and moves to Hello when auth is unavailable and to HelloAuth otherwise
\* (also when the client is authenticated), with the remembered domain and
\* without reverse path and recipients; a reset in Idle replies 250 OK and
\* stays in Idle.
C11_Reset ==
  (op = "process" /\ handled.tag = "Rset") =>
    /\ prev.smtp.id \in {"Hello", "HelloAuth", "Mail", "Rcpt"} =>
         /\ response = OK
         /\ smtp = IF prev.auth_state = "Unavailable"
                   THEN Hello(prev.smtp.domain)
                   ELSE HelloAuth(prev.smtp.domain)
         /\ smtp.reverse_path = <<>>
         /\ smtp.forward_path = <<>>
         /\ auth_state = prev.auth_state
    /\ prev.smtp.id = "Idle" => response = OK /\ smtp = Idle

C11_ResetWhenAuthenticated ==
  /\ op = "process"
  /\ handled.tag = "Rset"
  /\ prev.smtp.id = "Rcpt"
  /\ prev.smtp.forward_path # <<>>
  /\ prev.auth_state = "Authenticated"
  /\ smtp = HelloAuth(prev.smtp.domain)
  /\ response.code = 250

\* C12 as stated by the specification: in every protocol state (Idle,
\* Hello, HelloAuth, Auth, Mail, Rcpt, Data) a quit line is answered 221
\* Goodbye with action close and the session has no current state
\* afterwards.
C12_QuitInEveryState ==
  (op = "process" /\ input = LineQuit /\ prev.smtp.id # "Invalid") =>
    /\ response = GOODBYE
    /\ response.action = "Close"
    /\ smtp = None

\* C12, amended: in Idle, Hello, HelloAuth, Mail and Rcpt a quit line is
\* answered 221 Goodbye with action close, without a callback, and the
\* session has no current state afterwards.  In Auth the line is taken as
\* the authentication response and in Data as a line of the message; the
\* session is not ended by it.
C12_Quit ==
  (op = "process" /\ input = LineQuit) =>
    /\ prev.smtp.id \in ParseStates =>
         /\ handled.tag = "Quit"
         /\ response = GOODBYE
         /\ response.code = 221
         /\ response.action = "Close"
         /\ callback = NoCall
         /\ smtp = None
    /\ prev.smtp.id = "Auth" =>
         handled.tag = "AuthResponse" /\ callback.cb = "auth_plain"
    /\ prev.smtp.id = "Data" =>
         callback.cb = "data" /\ (callback.ok => smtp = prev.smtp)

C12_QuitInRcpt ==
  /\ op = "process"
  /\ input = LineQuit
  /\ prev.smtp.id = "Rcpt"
  /\ response.code = 221
  /\ smtp = None

\* C13: once the session has no current state, every later process call
\* and every tls_active signal is answered 421 Internal service error with
\* action close by the state machine, calls no Handler method, and the
\* session still has no current state.
C13_TerminationIsAbsorbing ==
  (Acted /\ prev.smtp = None) =>
    /\ response = INVALID_STATE
    /\ response.code = 421
    /\ response.action = "Close"
    /\ callback = NoCall
    /\ smtp = None

C13_LineAfterQuit ==
  /\ op = "process"
  /\ prev.smtp = None
  /\ input = LineHelo
  /\ response.code = 421
  /\ smtp = None

\* The Handler methods that return a Response.
ResponseCallbacks ==
  {"helo", "mail", "rcpt", "data_start", "data_end", "auth_plain"}

\* C14: whenever a Handler method that returns a response (helo, mail,
\* rcpt, data_start, data_end, auth_plain) returns one whose action is close
\* (code 221 or 421), the session has no current state after the call.
C14_CloseFromCallbackTerminates ==
  (Acted /\ callback.cb \in ResponseCallbacks
         /\ callback.ret.action = "Close") => smtp = None

\* C15: a RCPT TO accepted in Mail or Rcpt (answered with a non-error
\* response that keeps the session open) puts its path at the end of
\* forward_path, behind all earlier entries in their order, also when the
\* path is already in the list; data_start receives the list in that order.
C15_RecipientsInOrder ==
  /\ (/\ op = "process"
      /\ handled.tag = "Rcpt"
      /\ prev.smtp.id \in {"Mail", "Rcpt"}
      /\ ~response.is_error
      /\ response.action # "Close") =>
       /\ callback.cb = "rcpt"
       /\ smtp.id = "Rcpt"
       /\ smtp.forward_path = Append(prev.smtp.forward_path, handled.arg)
  /\ callback.cb = "data_start" => callback.args[4] = prev.smtp.forward_path

C15_DuplicateRecipient ==
  /\ op = "process"
  /\ handled.tag = "Rcpt"
  /\ prev.smtp.id = "Rcpt"
  /\ prev.smtp.forward_path = << <<"r">> >>
  /\ smtp.forward_path = << <<"r">>, <<"r">> >>

\* C16 as stated by the specification: the forward-path list passed to
\* data_start consists exactly of the recipients whose rcpt callback
\* returned a non-error response since the most recent successful MAIL
\* FROM, and a rejected recipient leaves state and list unchanged.
C16_EnvelopeAsStated ==
  /\ callback.cb = "data_start" => callback.args[4] = accepted_rcpts
  /\ (callback.cb = "rcpt" /\ callback.ret.is_error) => smtp = prev.smtp

\* C16, amended: the list passed to data_start consists exactly of the
\* recipients whose rcpt callback returned a non-error response since the
\* most recent successful MAIL FROM (so no recipient of an earlier
\* transaction is in it); while the session is in Rcpt its forward_path is
\* that list; a recipient rejected with a response whose action is not
\* close leaves state and list unchanged, and one rejected with action
\* close (421) ends the session.
C16_Envelope ==
  /\ callback.cb = "data_start" => callback.args[4] = accepted_rcpts
  /\ smtp.id = "Rcpt" => smtp.forward_path = accepted_rcpts
  /\ smtp.id = "Mail" => accepted_rcpts = <<>>
  /\ (callback.cb = "rcpt" /\ callback.ret.is_error) =>
       IF callback.ret.action = "Close" THEN smtp = None
       ELSE smtp = prev.smtp

C16_DataStartGetsAccepted ==
  /\ callback.cb = "data_start"
  /\ callback.args[4] = << <<"r">>, <<"q">> >>
  /\ accepted_rcpts = << <<"r">>, <<"q">> >>
  /\ smtp.id = "Data"

\* C17: the data_start callback is called only when DATA is handled in
\* Rcpt, hence after an accepted MAIL FROM and at least one accepted RCPT
\* TO of the current transaction; DATA in Idle, Hello, HelloAuth or Mail is
\* answered 503 without calling data_start and without changing state.
C17_DataOnlyInRcpt ==
  /\ callback.cb = "data_start" =>
       /\ op = "process"
       /\ handled.tag = "Data"
       /\ prev.smtp.id = "Rcpt"
       /\ prev.smtp.forward_path # <<>>
       /\ accepted_rcpts # <<>>
  /\ (/\ op = "process"
      /\ handled.tag = "Data"
      /\ prev.smtp.id \in {"Idle", "Hello", "HelloAuth", "Mail"}) =>
       /\ response = BAD_SEQUENCE_COMMANDS
       /\ response.code = 503
       /\ callback = NoCall
       /\ smtp = prev.smtp

C17_DataRefusedInMail ==
  /\ op = "process"
  /\ input = LineData
  /\ prev.smtp.id = "Mail"
  /\ response.code = 503
  /\ smtp.id = "Mail"

\* C18: the data_end callback is called only when the terminator line is
\* processed while the session is in Data, and the data callback only for
\* other lines while in Data; no operation outside Data calls either.
C18_NoPartialCommit ==
  /\ callback.cb = "data_end" =>
       op = "process" /\ prev.smtp.id = "Data" /\ input = LineDot
  /\ callback.cb = "data" =>
       op = "process" /\ prev.smtp.id = "Data" /\ input # LineDot
  /\ (Acted /\ prev.smtp.id # "Data") => callback.cb \notin {"data", "data_end"}

C18_DataEndOnTerminator ==
  /\ callback.cb = "data_end"
  /\ prev.smtp.id = "Data"
  /\ input = LineDot
  /\ smtp.id = "Hello"

\* C19: in Data every input line other than the terminator, also one that
\* spells QUIT, RSET, HELO or DATA, is given to the data callback with at
\* most one leading dot removed, is answered with the empty no-reply
\* response when the callback succeeds, calls no other Handler method, and
\* leaves the session in Data with the same domain.
C19_DataBypassesParser ==
  (op = "process" /\ prev.smtp.id = "Data" /\ input # LineDot) =>
    /\ callback.cb = "data"
    /\ callback.args =
         << IF input[1] = "." THEN Tail(input) ELSE input >>
    /\ handled.tag = "None"
    /\ callback.ok => (response = EMPTY_RESPONSE /\ response.action = "NoReply")
    /\ smtp = prev.smtp

C19_QuitIsBodyInData ==
  /\ op = "process"
  /\ prev.smtp.id = "Data"
  /\ input = LineQuit
  /\ callback.cb = "data"
  /\ callback.args = <<LineQuit>>
  /\ smtp.id = "Data"

\* C20: for every body line B, when the peer sends stuff(B) while the
\* session is in Data, the line is not taken as the terminator and the
\* data callback observes exactly B.
C20_DotStuffingInvertible ==
  \A B \in BodyLines :
    (op = "process" /\ prev.smtp.id = "Data" /\ input = stuff(B)) =>
      /\ handled.tag # "DataEnd"
      /\ callback.cb = "data"
      /\ callback.args = <<B>>

C20_StuffedDotDelivered ==
  /\ op = "process"
  /\ prev.smtp.id = "Data"
  /\ input = stuff(LineDot)
  /\ LineDot \in BodyLines
  /\ callback.cb = "data"
  /\ callback.args = <<LineDot>>

\* The bytes of a sequence of lines, in order.
RECURSIVE Flatten(_)
Flatten(ls) == IF ls = <<>> THEN <<>> ELSE Head(ls) \o Flatten(Tail(ls))

\* C21: while a session is in Data, and when data_end is called, the
\* arguments the data callback received since the session entered Data are
\* the body lines sent since then, one call per line and in the order of
\* the lines, so both have the same concatenation.
C21_DataCallbackPerLine ==
  (smtp.id = "Data" \/ callback.cb = "data_end") =>
    /\ body_seen = body_sent
    /\ Flatten(body_seen) = Flatten(body_sent)

C21_TwoLinesThenDataEnd ==
  /\ callback.cb = "data_end"
  /\ body_sent = <<LineDot, LineBody>>
  /\ body_seen = <<LineDot, LineBody>>

\* C22: a line whose data callback fails is answered 554 "Transaction
\* failed" and leaves the session in Data as it was; after such a failure
\* every line processed in that Data phase is still body given to the data
\* callback, and the terminator still calls data_end.
C22_DataFailureKeepsData ==
  /\ (op = "process" /\ callback.cb = "data" /\ ~callback.ok) =>
       /\ response = TRANSACTION_FAILED
       /\ response.code = 554
       /\ smtp.id = "Data"
       /\ smtp = prev.smtp
  /\ (data_failed /\ op = "process" /\ prev.smtp.id = "Data") =>
       IF input = LineDot
       THEN handled.tag = "DataEnd" /\ callback.cb = "data_end"
       ELSE callback.cb = "data" /\ callback.args = <<unstuffed(input)>>

C22_DataEndAfterFailure ==
  /\ data_failed
  /\ op = "process"
  /\ input = LineDot
  /\ callback.cb = "data_end"
  /\ Len(body_seen) = 2

\* The last line was given to a parser that found no command in it: the
\* command parser in the states that use it, the continuation parser in
\* Auth.
FailedToParse ==
  /\ op = "process"
  /\ \/ prev.smtp.id \in ParseStates /\ ~parse(input).left
     \/ prev.smtp.id = "Auth" /\ ~parse_auth_response(input).left

\* C23: a line that fails to parse is answered 500 or 502, calls no
\* callback and leaves the protocol state with its envelope, the TLS state
\* and the auth state as they were; HELO with a domain that is not UTF-8,
\* sent in Idle, is answered 500 and the session stays in Idle.
C23_ParseFailureChangesNothing ==
  /\ FailedToParse =>
       /\ response.code \in {500, 502}
       /\ callback = NoCall
       /\ handled.tag = "None"
       /\ smtp = prev.smtp
       /\ tls = prev.tls
       /\ auth_state = prev.auth_state
  /\ (op = "process" /\ prev.smtp.id = "Idle" /\ input = LineHeloBadUtf8) =>
       /\ response.code = 500
       /\ callback = NoCall
       /\ smtp = Idle

C23_BadUtf8InIdle ==
  /\ FailedToParse
  /\ prev.smtp.id = "Idle"
  /\ input = LineHeloBadUtf8
  /\ response = SYNTAX_ERROR
  /\ smtp.id = "Idle"

\* The last operation returned a response: process, the tls_active signal
\* (the response StateMachine::command computed) or greeting.
Returned == op \in {"process", "tls_active", "greeting"}

\* The rule that derives is_error from the code of the last response.
ErrorIffCode ==
  response.is_error <=> (response.code < 200 \/ response.code >= 400)

\* C24 as stated: every returned response has is_error exactly when its
\* code is below 200 or at least 400, and has action close when its code
\* is 221 or 421.
C24_ErrorIffCodeAsStated ==
  Returned =>
    /\ ErrorIffCode
    /\ response.code \in {221, 421} => response.action = "Close"

\* C24: every returned response that has a message has is_error exactly
\* when its code is below 200 or at least 400; the empty response has code
\* 0, is not an error and has action no-reply; every returned response
\* with code 221 or 421 has action close.
C24_ErrorIffCode ==
  Returned =>
    /\ response.message.kind # "Empty" => ErrorIffCode
    /\ response.message.kind = "Empty" =>
         /\ response.code = 0
         /\ ~response.is_error
         /\ response.action = "NoReply"
    /\ response.code \in {221, 421} => response.action = "Close"

C24_InvalidStateCloses ==
  /\ op = "process"
  /\ prev.smtp = None
  /\ response.code = 421
  /\ response.is_error
  /\ response.action = "Close"

\* The text of the last response and its tail.
HeadOf == response.message.head
TailOf == response.message.tail

\* C25: a dynamic response with an empty tail is written as the one line
\* "<code> <head>"; with a tail of n > 0 texts as n + 1 lines, "<code>-<head>",
\* then "<code>-<text>" for every text but the last and "<code> <text>" for
\* the last; a fixed or custom response as the one line "<code> <message>";
\* the empty response as nothing.  Every line ends with CRLF.
C25_WriteTo ==
  op = "write_to" =>
    CASE response.message.kind = "Dynamic" /\ TailOf = <<>> ->
           written = << <<response.code, " ", HeadOf, "\r\n">> >>
      [] response.message.kind = "Dynamic" /\ TailOf # <<>> ->
           /\ Len(written) = Len(TailOf) + 1
           /\ written[1] = <<response.code, "-", HeadOf, "\r\n">>
           /\ \A i \in 1..(Len(TailOf) - 1) :
                written[i + 1] = <<response.code, "-", TailOf[i], "\r\n">>
           /\ written[Len(written)] =
                <<response.code, " ", TailOf[Len(TailOf)], "\r\n">>
      [] response.message.kind \in {"Fixed", "Custom"} ->
           written = << <<response.code, " ", HeadOf, "\r\n">> >>
      [] response.message.kind = "Empty" -> written = <<>>

C25_ThreeExtensionsWritten ==
  /\ op = "write_to"
  /\ response = dynamic(250, "server offers extensions:",
                        <<"8BITMIME", "STARTTLS", "AUTH PLAIN">>)
  /\ written = << <<250, "-", "server offers extensions:", "\r\n">>,
                  <<250, "-", "8BITMIME", "\r\n">>,
                  <<250, "-", "STARTTLS", "\r\n">>,
                  <<250, " ", "AUTH PLAIN", "\r\n">> >>

\* C26: after a Handler method panicked while a line was handled, the
\* protocol state, the TLS state and the auth state are those from before
\* the call.
C26_PanicKeepsState ==
  op = "panic" =>
    /\ smtp = prev.smtp
    /\ tls = prev.tls
    /\ auth_state = prev.auth_state

\* C27: MAIL FROM handled in HelloAuth is answered 503, does not call the
\* mail callback and leaves the session in HelloAuth as it was.
C27_MailRefusedBeforeAuth ==
  (op = "process" /\ prev.smtp.id = "HelloAuth" /\ handled.tag = "Mail") =>
    /\ response = BAD_SEQUENCE_COMMANDS
    /\ response.code = 503
    /\ callback = NoCall
    /\ smtp = prev.smtp
    /\ auth_state = prev.auth_state

C27_MailInHelloAuth ==
  /\ op = "process"
  /\ prev.smtp.id = "HelloAuth"
  /\ input = LineMail
  /\ handled.tag = "Mail"
  /\ response.code = 503
  /\ smtp.id = "HelloAuth"

C29_UnavailableIffNoMechanisms ==
  (auth_state = "Unavailable") <=> (auth_mechanisms = <<>>)

C29_RefusedCredentialsKeepRequiresAuth ==
  /\ op = "process"
  /\ callback.cb = "auth_plain"
  /\ callback.ret.is_error
  /\ auth_mechanisms = <<"Plain">>
  /\ auth_state = "RequiresAuth"

\* C30: the mail callback gets the domain of the last HELO or EHLO that
\* was answered without error; data_start gets that domain and the reverse
\* path and 8-bit flag of the last MAIL FROM answered without error, the
\* flag being false when the line had no BODY= parameter; in every state
\* that holds a domain it is that domain, so a refused HELO or EHLO does
\* not replace it.
C30_RememberedEnvelope ==
  /\ callback.cb = "mail" =>
       /\ helo_domain # <<>>
       /\ callback.args[2] = helo_domain
  /\ callback.cb = "data_start" =>
       /\ mail_from.known
       /\ callback.args[1] = helo_domain
       /\ callback.args[2] = mail_from.reverse_path
       /\ callback.args[3] = mail_from.is8bit
  /\ smtp.id \notin {"Idle", "Invalid"} => smtp.domain = helo_domain
  /\ (/\ op = "process"
      /\ handled.tag \in {"Helo", "Ehlo"}
      /\ response.is_error
      /\ response.action # "Close") => smtp = prev.smtp

C30_DataStartGetsRemembered ==
  /\ callback.cb = "data_start"
  /\ callback.args[1] = <<"a">>
  /\ callback.args[2] = <<"s">>
  /\ callback.args[3] = TRUE
  /\ helo_domain = <<"a">>
  /\ mail_from.is8bit

\* The fsm as it was before the last operation.
PrevFsm == Fsm(RemoteIp, auth_mechanisms, prev.auth_state, prev.tls,
               auth_plain_flag)

\* C31 as stated: an EHLO is handled in Idle, Hello, HelloAuth, Mail or
\* Rcpt and calls the hello callback; a 250 from the callback is replaced
\* by the extension advertisement; on a non-error response the session
\* moves to Hello when auth is unavailable and to HelloAuth otherwise; on
\* an error response the callback's response is returned and the state is
\* kept.
C31_EhloAsStated ==
  (op = "process" /\ handled.tag = "Ehlo") =>
    /\ prev.smtp.id \in {"Idle", "Hello", "HelloAuth", "Mail", "Rcpt"}
    /\ callback.cb = "helo"
    /\ callback.ret.code = 250 => response = ehlo_response(PrevFsm)
    /\ ~response.is_error =>
         smtp = IF prev.auth_state = "Unavailable"
                THEN Hello(handled.arg) ELSE HelloAuth(handled.arg)
    /\ response.is_error => response = callback.ret /\ smtp = prev.smtp

\* C31, amended: as stated for the responses whose action is not close; a
\* response of the hello callback whose action is close (221, 421) is
\* returned and ends the session.  The TLS state and the auth state are
\* not changed.
C31_Ehlo ==
  (op = "process" /\ handled.tag = "Ehlo") =>
    /\ prev.smtp.id \in {"Idle", "Hello", "HelloAuth", "Mail", "Rcpt"}
    /\ callback.cb = "helo"
    /\ callback.args = <<RemoteIp, handled.arg>>
    /\ response = IF callback.ret.code = 250 THEN ehlo_response(PrevFsm)
                  ELSE callback.ret
    /\ smtp = IF response.action = "Close" THEN None
              ELSE IF response.is_error THEN prev.smtp
              ELSE IF prev.auth_state = "Unavailable" THEN Hello(handled.arg)
              ELSE HelloAuth(handled.arg)
    /\ tls = prev.tls
    /\ auth_state = prev.auth_state

C31_EhloWhenAuthenticated ==
  /\ op = "process"
  /\ handled.tag = "Ehlo"
  /\ prev.smtp.id = "Rcpt"
  /\ prev.auth_state = "Authenticated"
  /\ callback.cb = "helo"
  /\ response.code = 250
  /\ response.message.kind = "Dynamic"
  /\ smtp = HelloAuth(handled.arg)

\* C32: VRFY handled in Hello is answered 252 "Maybe", and handled in Idle,
\* HelloAuth, Mail or Rcpt is answered 503; in each of these states the
\* protocol state is unchanged and no callback is called.
C32_Vrfy ==
  (op = "process" /\ handled.tag = "Vrfy") =>
    /\ prev.smtp.id \in ParseStates
    /\ prev.smtp.id = "Hello" =>
         response.code = 252 /\ response.message = Fixed("Maybe")
    /\ prev.smtp.id \in {"Idle", "HelloAuth", "Mail", "Rcpt"} =>
         response.code = 503 /\ response = BAD_SEQUENCE_COMMANDS
    /\ callback = NoCall
    /\ smtp = prev.smtp
    /\ tls = prev.tls
    /\ auth_state = prev.auth_state

C32_VrfyInMail ==
  /\ op = "process"
  /\ input = LineVrfy
  /\ handled.tag = "Vrfy"
  /\ prev.smtp.id = "Mail"
  /\ response.code = 503
  /\ smtp = prev.smtp

\* The last call on the Store was name(c).
Called(name, c) == store_call.name = name /\ store_call.chat_id = c

\* C33: after add_bot_to_chat(c) exist_chat(c) is true, and it becomes
\* false only by remove_bot_from_chat(c), after which it is false; a call
\* for another chat id does not change it, exist_chat answers what the
\* table holds, and adding a present chat or removing an absent one leaves
\* the set of chats as it was.
C33_ChatMembership ==
  \A c \in ChatIds :
    /\ Called("add_bot_to_chat", c) =>
         /\ exist_chat(chat, c)
         /\ exist_chat(store_call.before, c) => chat = store_call.before
    /\ Called("remove_bot_from_chat", c) =>
         /\ ~exist_chat(chat, c)
         /\ ~exist_chat(store_call.before, c) => chat = store_call.before
    /\ Called("exist_chat", c) =>
         /\ store_call.ret = (c \in chat)
         /\ chat = store_call.before
    /\ (exist_chat(store_call.before, c) /\ ~exist_chat(chat, c)) =>
         Called("remove_bot_from_chat", c)
    /\ (~exist_chat(store_call.before, c) /\ exist_chat(chat, c)) =>
         Called("add_bot_to_chat", c) \/ Called("mail_for_chat", c)

C33_RemovedBesideOtherChat ==
  /\ Called("remove_bot_from_chat", "some_chat_name")
  /\ store_call.before = {"some_chat_name", "c1"}
  /\ chat = {"c1"}

\* The callbacks of a mail transaction.
TransactionCallbacks == {"mail", "rcpt", "data_start", "data", "data_end"}

\* C34: in a session built with auth mechanisms, whenever the state is
\* Hello, Mail, Rcpt or Data, auth_state is Authenticated, and the mail,
\* rcpt, data_start, data and data_end callbacks are called only while
\* auth_state is Authenticated.
C34_AuthNotBypassed ==
  auth_mechanisms # <<>> =>
    /\ smtp.id \in {"Hello", "Mail", "Rcpt", "Data"} =>
         auth_state = "Authenticated"
    /\ (op = "process" /\ callback.cb \in TransactionCallbacks) =>
         prev.auth_state = "Authenticated"

\* The last operation was a terminator line in Data whose data_end
\* callback returned an error response.
DataEndRefused ==
  /\ op = "process"
  /\ prev.smtp.id = "Data"
  /\ callback.cb = "data_end"
  /\ callback.ret.is_error

\* A line processed in a Data phase in which data_end has returned an error
\* is body for the data callback, or the terminator for data_end.
BodyAfterRefusal ==
  (end_refused /\ op = "process" /\ prev.smtp.id = "Data") =>
    IF input = LineDot
    THEN handled.tag = "DataEnd" /\ callback.cb = "data_end"
    ELSE /\ callback.cb = "data"
         /\ callback.args = <<unstuffed(input)>>
         /\ smtp = prev.smtp

\* C35 as stated: when data_end returns an error response for the
\* terminator line, the response is returned as it is and the session
\* stays in Data, and every following line, MAIL FROM and RSET included,
\* goes to the data callback as body until the terminator is accepted.
C35_DataEndErrorAsStated ==
  /\ DataEndRefused => response = callback.ret /\ smtp = prev.smtp
  /\ BodyAfterRefusal

\* C35: when data_end returns an error response whose action is not close,
\* the response is returned as it is and the session stays in Data, and
\* every following line, MAIL FROM and RSET included, goes to the data
\* callback as body until the terminator is accepted; an error response
\* with action close is returned as it is and ends the session.
C35_DataEndError ==
  /\ DataEndRefused =>
       /\ response = callback.ret
       /\ smtp = IF response.action = "Close" THEN None ELSE prev.smtp
  /\ BodyAfterRefusal

C35_MailFromAfterRefusedEnd ==
  /\ end_refused
  /\ op = "process"
  /\ input = LineMail
  /\ callback.cb = "data"
  /\ callback.args = <<LineMail>>
  /\ smtp.id = "Data"

\* C36: NOOP is answered 503 "Bad sequence of commands" in Idle, Hello,
\* HelloAuth, Mail and Rcpt, calls no callback and leaves the state with
\* its envelope, tls and auth_state as they were.
C36_Noop ==
  /\ (op = "process" /\ input = LineNoop /\ prev.smtp.id \in ParseStates) =>
       handled.tag = "Noop"
  /\ (op = "process" /\ handled.tag = "Noop") =>
       /\ prev.smtp.id \in ParseStates
       /\ response = BAD_SEQUENCE_COMMANDS
       /\ response.code = 503
       /\ response.message = Fixed("Bad sequence of commands")
       /\ callback = NoCall
       /\ smtp = prev.smtp
       /\ tls = prev.tls
       /\ auth_state = prev.auth_state

C36_NoopInRcpt ==
  /\ op = "process"
  /\ input = LineNoop
  /\ handled.tag = "Noop"
  /\ prev.smtp.id = "Rcpt"
  /\ Len(smtp.forward_path) = 2
  /\ response.code = 503

\* C37: with MailHandler as the handler, when data_start is called the
\* handler's rcpts is the forward-path list it is given, and when data_end
\* runs the handler's rcpts is the list of the recipients accepted in the
\* transaction being completed.
C37_NotifiedAreEnvelope ==
  /\ (op = "process" /\ callback.cb = "data_start") =>
       /\ callback.args[4] = accepted_rcpts
       /\ rcpts = callback.args[4]
  /\ (op = "process" /\ callback.cb = "data_end") =>
       rcpts_at_data_end = accepted_rcpts

\* C38: in a session built with auth mechanisms, whenever the state is
\* Auth, Hello, Mail, Rcpt or Data, tls is Active.
C38_AuthOnlyOverTls ==
  (auth_mechanisms # <<>>
     /\ smtp.id \in {"Auth", "Hello", "Mail", "Rcpt", "Data"}) =>
    tls = "Active"

C38_DataOverTls ==
  /\ auth_mechanisms # <<>>
  /\ op = "process"
  /\ prev.smtp.id = "Rcpt"
  /\ smtp.id = "Data"
  /\ tls = "Active"

\* C39: a MAIL FROM handled in Mail or Rcpt is answered 503 without a call
\* of the mail callback and leaves the state with its reverse path, 8-bit
\* flag and recipient list as it was; the mail callback is called, and a
\* MAIL FROM answered without error, only in Hello.
C39_NoNestedTransaction ==
  /\ (/\ op = "process"
      /\ input \in {LineMail, LineMail8bit}
      /\ prev.smtp.id \in ParseStates) => handled.tag = "Mail"
  /\ (op = "process" /\ handled.tag = "Mail"
        /\ prev.smtp.id \in {"Mail", "Rcpt"}) =>
       /\ response = BAD_SEQUENCE_COMMANDS
       /\ response.code = 503
       /\ callback = NoCall
       /\ smtp = prev.smtp
  /\ (op = "process" /\ callback.cb = "mail") => prev.smtp.id = "Hello"
  /\ (op = "process" /\ handled.tag = "Mail" /\ ~response.is_error) =>
       prev.smtp.id = "Hello"
  /\ (op = "process" /\ smtp.id = "Mail" /\ smtp # prev.smtp) =>
       prev.smtp.id = "Hello" /\ handled.tag = "Mail"

C39_MailRefusedInRcpt ==
  /\ op = "process"
  /\ input = LineMail8bit
  /\ handled.tag = "Mail"
  /\ prev.smtp.id = "Rcpt"
  /\ response.code = 503
  /\ smtp.id = "Rcpt"
  /\ ~smtp.is8bit
  /\ Len(smtp.forward_path) = 2

\* The commands of a mail transaction and of authentication.
GreetedCommands == {"Mail", "Rcpt", "Data", "AuthPlain", "AuthPlainEmpty"}

\* In Idle the commands MAIL FROM, RCPT TO, DATA and AUTH are answered 503
\* and change nothing, and tls changes only by the tls_active signal in
\* Idle, to Active.
IdleAfterStartTls ==
  /\ (op = "process" /\ prev.smtp.id = "Idle"
        /\ handled.tag \in GreetedCommands) =>
       /\ response = BAD_SEQUENCE_COMMANDS
       /\ callback = NoCall
       /\ smtp = Idle
  /\ tls # prev.tls =>
       op = "tls_active" /\ prev.smtp.id = "Idle" /\ tls = "Active"

\* C40: a STARTTLS answered 220 with action upgrade-tls leaves the session
\* in Idle with tls still Inactive; in Idle MAIL FROM, RCPT TO, DATA and
\* AUTH are answered 503 until a HELO or EHLO is accepted, and tls becomes
\* Active only by the tls_active signal while the session is in Idle.
C40_StartTlsForgetsGreeting ==
  /\ (op = "process" /\ handled.tag = "StartTls" /\ response.code = 220) =>
       /\ response = START_TLS
       /\ response.action = "UpgradeTls"
       /\ smtp = Idle
       /\ prev.tls = "Inactive"
       /\ tls = "Inactive"
  /\ IdleAfterStartTls
====
